---- MODULE Spec2Model ----
(***************************************************************************)
(* Stock ledger and order-fulfilment workflow of gestion-stock-tech.       *)
(*                                                                         *)
(* The database is modelled as one record per table set (DB); every        *)
(* service function of the source is an operator from a database to a      *)
(* result [ok, err, db], and @transaction.atomic is the operator `atomic`  *)
(* that restores the database of the call when the body raised.            *)
(* Quantities are Decimal(10,2) in the source; the model counts them in    *)
(* whole units.                                                            *)
(***************************************************************************)
EXTENDS Integers, Sequences, FiniteSets, TLC

VARIABLES
    stock,        \* inventory_stock_tech: <<technician, article>> -> row
    movements,    \* audit_stock_movement, in insertion order
    events,       \* audit_event_log, in insertion order
    threshold,    \* inventory_threshold: <<technician, article>> -> row
    alerts,       \* audit_threshold_alert, in insertion order
    reservations, \* orders_reservation, id = index
    paniers,      \* orders_panier with its orders_panier_line rows, id = index
    demandes,     \* orders_demande with its orders_demande_line rows, id = index
    pins,         \* users_pincode, in insertion order
    now,          \* timezone.now(), in hours
    last,         \* the call that completed last and its outcome
    loaded,       \* per request: the Demande instance the view fetched
    txn,          \* per connection: the open stock transaction, if any
    calls         \* outcomes of the completed concurrent stock calls

vars == <<stock, movements, events, threshold, alerts, reservations, paniers,
          demandes, pins, now, last, loaded, txn, calls>>

----------------------------------------------------------------------------
(* Bounds of the model *)

MaxQty == 2
MaxLedgerOps == 2
MaxReservations == 2
MaxConcCalls == 2

(* Program constants *)

ALERT_WINDOW_HOURS == 24
PIN_EXPIRY_MINUTES == 10

Tech == {"t1", "t2"}
Article == {"a1", "a2"}
Rows == Tech \X Article
Proc == {"p1", "p2"}
NoId == 0
Never == -1

Min(x, y) == IF x < y THEN x ELSE y
Max(x, y) == IF x > y THEN x ELSE y

----------------------------------------------------------------------------
(* The database *)

DB == [stock |-> stock, movements |-> movements, events |-> events,
       threshold |-> threshold, alerts |-> alerts,
       reservations |-> reservations, paniers |-> paniers,
       demandes |-> demandes, pins |-> pins,
       audit_down |-> FALSE, raised |-> FALSE, inactive |-> {}]

NoStock == [exists |-> FALSE, quantity |-> 0, reserved_qty |-> 0]
NoThreshold == [exists |-> FALSE, min_qty |-> 0, is_active |-> FALSE,
                last_alert_sent |-> Never]

EmptyDB == [stock |-> [r \in Rows |-> NoStock],
            movements |-> <<>>, events |-> <<>>,
            threshold |-> [r \in Rows |-> NoThreshold],
            alerts |-> <<>>, reservations |-> <<>>, paniers |-> <<>>,
            demandes |-> <<>>, pins |-> <<>>,
            audit_down |-> FALSE, raised |-> FALSE, inactive |-> {}]

Ok(db) == [ok |-> TRUE, err |-> "", db |-> db]
Fail(db, err) == [ok |-> FALSE, err |-> err, db |-> db]

(* db.inactive holds the articles whose is_active is False when the call runs;
   the catalogue is edited outside the operations modelled here. *)

(* The exception of a failed INSERT into audit_event_log.  db.audit_down says
   that the audit table cannot be written during the call, db.raised that the
   exception is propagating: no service catches it. *)
AuditError == "DatabaseError: audit_event_log"

(* the exception reaches the caller of a function that opens no transaction:
   the writes made before it stay *)
propagate(res) == IF res.db.raised THEN Fail(res.db, AuditError) ELSE res

(* A raise inside @transaction.atomic undoes every write of the call.      *)
atomic_no_rollback(pre, res) == res

atomic(pre, res) ==
    LET r == propagate(res) IN IF r.ok THEN r ELSE [r EXCEPT !.db = pre]

----------------------------------------------------------------------------
(* apps/inventory/models.py: StockTech *)

available_quantity_ignores_reserved(s) == s.quantity

available_quantity(s) == s.quantity - s.reserved_qty

reserve_quantity_unchecked(s, qty) ==
    [ok |-> TRUE, err |-> "", val |-> [s EXCEPT !.reserved_qty = @ + qty]]

reserve_quantity(s, qty) ==
    IF qty > available_quantity(s)
    THEN [ok |-> FALSE, err |-> "Not enough available quantity to reserve", val |-> s]
    ELSE [ok |-> TRUE, err |-> "", val |-> [s EXCEPT !.reserved_qty = @ + qty]]

release_reservation(s, qty) ==
    IF qty > s.reserved_qty
    THEN [ok |-> FALSE, err |-> "Cannot release more than reserved", val |-> s]
    ELSE [ok |-> TRUE, err |-> "", val |-> [s EXCEPT !.reserved_qty = @ - qty]]

consume_stock_keep_reserved(s, qty) ==
    IF qty > s.quantity
    THEN [ok |-> FALSE, err |-> "Not enough stock to consume", val |-> s]
    ELSE [ok |-> TRUE, err |-> "", val |-> [s EXCEPT !.quantity = @ - qty]]

consume_stock(s, qty) ==
    IF qty > s.quantity
    THEN [ok |-> FALSE, err |-> "Not enough stock to consume", val |-> s]
    ELSE LET q1 == s.quantity - qty
             r1 == IF s.reserved_qty > 0
                   THEN s.reserved_qty - Min(qty, s.reserved_qty)
                   ELSE s.reserved_qty
         IN [ok |-> TRUE, err |-> "",
             val |-> [s EXCEPT !.quantity = q1, !.reserved_qty = r1]]

(* StockTech.objects.select_for_update().get_or_create(technician, article,
   defaults={'quantity': 0}) *)
get_or_create_stock(db, technician, article) ==
    IF db.stock[<<technician, article>>].exists THEN db
    ELSE [db EXCEPT !.stock[<<technician, article>>] =
              [exists |-> TRUE, quantity |-> 0, reserved_qty |-> 0]]

(* Threshold.check_threshold *)
check_threshold(db, r) ==
    IF db.stock[r].exists
    THEN available_quantity(db.stock[r]) <= db.threshold[r].min_qty
    ELSE TRUE

----------------------------------------------------------------------------
(* apps/audit: StockMovement rows and AuditService.log_event *)

Movement(technician, article, delta, reason, linked_demande, balance_after) ==
    [technician |-> technician, article |-> article, delta |-> delta,
     reason |-> reason, linked_demande |-> linked_demande,
     balance_after |-> balance_after]

create_movement(db, m) == [db EXCEPT !.movements = Append(@, m)]

(* hashlib.sha256(json.dumps(data, sort_keys=True)).hexdigest(): equal data
   give equal digests, different data different ones *)
sha256(data) == <<"sha256", data>>

(* the empty string in a hash column *)
EmptyHash == <<>>

_calculate_hash_without_action(e) ==
    sha256([entity_type |-> e.entity_type, entity_id |-> e.entity_id,
            timestamp |-> e.timestamp, prev_hash |-> e.prev_hash])

(* EventLog._calculate_hash, over the fields of the record the model keeps *)
_calculate_hash(e) ==
    sha256([entity_type |-> e.entity_type, entity_id |-> e.entity_id,
            action |-> e.action, timestamp |-> e.timestamp, prev_hash |-> e.prev_hash])

(* EventLog.objects.order_by('-timestamp').first(), over the rows `evts` the
   caller can see; 0 when there is none *)
LastRecord(evts) ==
    IF Len(evts) = 0 THEN 0
    ELSE CHOOSE i \in 1..Len(evts) : \A j \in 1..Len(evts) : evts[j].timestamp <= evts[i].timestamp

(* EventLog.save of a new record, lines 253-259: the record chained to the
   latest of the rows `evts` the caller can see *)
chained(evts, e) ==
    LET last_record == LastRecord(evts)
        e1 == [e EXCEPT !.prev_hash = IF last_record = 0 THEN EmptyHash
                                      ELSE evts[last_record].record_hash]
    IN  [e1 EXCEPT !.record_hash = _calculate_hash(e1)]

EventLog_save_unchained(db, e) ==
    LET e1 == [e EXCEPT !.prev_hash = EmptyHash] IN
    [db EXCEPT !.events = Append(@, [e1 EXCEPT !.record_hash = _calculate_hash(e1)])]

(* EventLog.save of a new record *)
EventLog_save(db, e) == [db EXCEPT !.events = Append(@, chained(db.events, e))]

(* EventLog.save of the instance e that was loaded from row k: save() writes
   its fields back, and computes the hashes only when record_hash is empty *)
EventLog_save_existing(db, k, e) ==
    [db EXCEPT !.events[k] = IF e.record_hash = EmptyHash THEN chained(db.events, e)
                             ELSE e]

(* EventLog(...): timestamp defaults to timezone.now() when the instance is built *)
EventLog(entity_type, entity_id, action, t) ==
    [entity_type |-> entity_type, entity_id |-> entity_id, action |-> action,
     timestamp |-> t, prev_hash |-> EmptyHash, record_hash |-> EmptyHash]

(* timezone.now() of a call that starts after every stored event was stamped *)
LaterThan(evts) ==
    IF Len(evts) = 0 THEN 1 ELSE evts[LastRecord(evts)].timestamp + 1

(* AuditService.log_event *)
log_event(db, entity_type, entity_id, action) ==
    IF db.audit_down THEN [db EXCEPT !.raised = TRUE]
    ELSE EventLog_save(db, EventLog(entity_type, entity_id, action, LaterThan(db.events)))

(* EventLog.verify_hash *)
verify_hash(e) == _calculate_hash(e) = e.record_hash

(* EventLog.verify_chain *)
verify_chain(db, e) ==
    IF e.prev_hash = EmptyHash
    THEN ~\E i \in 1..Len(db.events) : db.events[i].timestamp < e.timestamp
    ELSE \E i \in 1..Len(db.events) : db.events[i].record_hash = e.prev_hash

(* EventLog.objects.order_by('timestamp'): the row numbers, earliest first *)
RECURSIVE order_by_timestamp(_, _)
order_by_timestamp(evts, S) ==
    IF S = {} THEN <<>>
    ELSE LET i == CHOOSE x \in S : \A y \in S : evts[x].timestamp <= evts[y].timestamp
         IN  <<i>> \o order_by_timestamp(evts, S \ {i})

(* AuditService.verify_audit_chain over the full history; an error names its
   kind and the row it is about *)
verify_audit_chain(db) ==
    LET query == order_by_timestamp(db.events, 1..Len(db.events))
        n == Len(query)
        event(i) == db.events[query[i]]
        mismatch == SelectSeq(query, LAMBDA r : ~verify_hash(db.events[r]))
        broken == SelectSeq([i \in 1..n |-> i],
                            LAMBDA i : IF i = 1 THEN event(i).prev_hash # EmptyHash
                                       ELSE event(i).prev_hash # event(i - 1).record_hash)
        errors == [i \in 1..Len(mismatch) |-> [error |-> "Hash mismatch", record |-> mismatch[i]]]
                  \o [i \in 1..Len(broken) |->
                         [error |-> IF broken[i] = 1 THEN "First record has non-empty prev_hash"
                                    ELSE "Chain break",
                          record |-> query[broken[i]]]]
    IN  [valid |-> Len(errors) = 0,
         total_records |-> n,
         verified_records |-> n - Len(mismatch),
         errors |-> errors]

----------------------------------------------------------------------------
(* apps/inventory/services/stock_service.py: StockService *)

_check_threshold_for_stock(db, r, t) ==
    LET th == db.threshold[r] IN
    IF ~(th.exists /\ th.is_active) THEN db
    ELSE IF ~check_threshold(db, r) THEN db
    ELSE IF th.last_alert_sent # Never /\ t - th.last_alert_sent < ALERT_WINDOW_HOURS
         THEN db
    ELSE LET db1 == [db EXCEPT
                       !.alerts = Append(@, [technician |-> r[1], article |-> r[2],
                                             current_stock |-> available_quantity(db.stock[r]),
                                             threshold_level |-> th.min_qty,
                                             alert_sent_at |-> t]),
                       !.threshold[r].last_alert_sent = t]
         IN log_event(db1, "ThresholdAlert", Len(db1.alerts), "threshold_alert")

(* apps/inventory/services/threshold_service.py.  th is the Threshold
   instance the caller holds, r its (technician, article). *)
_create_alert_if_needed(db, th, r, current_qty, t) ==
    IF th.last_alert_sent # Never
       /\ t - th.last_alert_sent < ALERT_WINDOW_HOURS
    THEN db
    ELSE LET db1 == [db EXCEPT
                       !.alerts = Append(@, [technician |-> r[1], article |-> r[2],
                                             current_stock |-> current_qty,
                                             threshold_level |-> th.min_qty,
                                             alert_sent_at |-> t]),
                       !.threshold[r].last_alert_sent = t]
         IN log_event(db1, "ThresholdAlert", Len(db1.alerts), "threshold_alert_created")

(* check_all_thresholds, lines 87-105: one turn of the loop, for the threshold
   instance that the query at lines 82-84 returned *)
check_all_thresholds(db, th, r, t) ==
    LET current_qty == IF db.stock[r].exists THEN available_quantity(db.stock[r]) ELSE 0
    IN  IF current_qty <= th.min_qty
        THEN _create_alert_if_needed(db, th, r, current_qty, t)
        ELSE db

issue_stock_body(db, technician, article, quantity, linked_demande, t) ==
    IF quantity <= 0 THEN Fail(db, "Issue quantity must be positive")
    ELSE
    LET r == <<technician, article>>
        db1 == get_or_create_stock(db, technician, article)
        s0 == db1.stock[r]
    IN  IF available_quantity(s0) < quantity THEN Fail(db1, "Insufficient stock")
        ELSE
        LET c == consume_stock(s0, quantity) IN
        IF ~c.ok THEN Fail(db1, c.err)
        ELSE
        LET db2 == [db1 EXCEPT !.stock[r] = c.val]
            db3 == create_movement(db2, Movement(technician, article, -quantity,
                                                 "ISSUE", linked_demande, c.val.quantity))
            db4 == log_event(db3, "StockMovement", Len(db3.movements), "issue_stock")
        IN Ok(_check_threshold_for_stock(db4, r, t))

issue_stock(db, technician, article, quantity, linked_demande, t) ==
    atomic(db, issue_stock_body(db, technician, article, quantity, linked_demande, t))

receive_stock_body_releasing(db, technician, article, quantity, linked_demande) ==
    IF quantity <= 0 THEN Fail(db, "Receive quantity must be positive")
    ELSE
    LET r == <<technician, article>>
        db1 == get_or_create_stock(db, technician, article)
        s1 == [db1.stock[r] EXCEPT !.quantity = @ + quantity,
                                   !.reserved_qty = @ - Min(quantity, @)]
        db2 == [db1 EXCEPT !.stock[r] = s1]
        db3 == create_movement(db2, Movement(technician, article, quantity,
                                             "RECEIPT", linked_demande, s1.quantity))
    IN Ok(log_event(db3, "StockMovement", Len(db3.movements), "receive_stock"))

receive_stock_body_existing_only(db, technician, article, quantity, linked_demande) ==
    IF quantity <= 0 THEN Fail(db, "Receive quantity must be positive")
    ELSE IF ~db.stock[<<technician, article>>].exists THEN Fail(db, "No stock found")
    ELSE
    LET r == <<technician, article>>
        s1 == [db.stock[r] EXCEPT !.quantity = @ + quantity]
        db2 == [db EXCEPT !.stock[r] = s1]
        db3 == create_movement(db2, Movement(technician, article, quantity,
                                             "RECEIPT", linked_demande, s1.quantity))
    IN Ok(log_event(db3, "StockMovement", Len(db3.movements), "receive_stock"))

receive_stock_body(db, technician, article, quantity, linked_demande) ==
    IF quantity <= 0 THEN Fail(db, "Receive quantity must be positive")
    ELSE
    LET r == <<technician, article>>
        db1 == get_or_create_stock(db, technician, article)
        s1 == [db1.stock[r] EXCEPT !.quantity = @ + quantity]
        db2 == [db1 EXCEPT !.stock[r] = s1]
        db3 == create_movement(db2, Movement(technician, article, quantity,
                                             "RECEIPT", linked_demande, s1.quantity))
    IN Ok(log_event(db3, "StockMovement", Len(db3.movements), "receive_stock"))

receive_stock(db, technician, article, quantity, linked_demande) ==
    atomic(db, receive_stock_body(db, technician, article, quantity, linked_demande))

adjust_stock_body_as_delta(db, technician, article, new_quantity, t) ==
    IF new_quantity < 0 THEN Fail(db, "Stock quantity cannot be negative")
    ELSE
    LET r == <<technician, article>>
        db1 == get_or_create_stock(db, technician, article)
        old_quantity == db1.stock[r].quantity
        delta == new_quantity
    IN  IF delta = 0 THEN Fail(db1, "No change in quantity")
        ELSE
        LET db2 == [db1 EXCEPT !.stock[r].quantity = old_quantity + delta]
            db3 == create_movement(db2, Movement(technician, article, delta,
                                                 "ADJUST", NoId, old_quantity + delta))
        IN Ok(log_event(db3, "StockMovement", Len(db3.movements), "adjust_stock"))

adjust_stock_body(db, technician, article, new_quantity, t) ==
    IF new_quantity < 0 THEN Fail(db, "Stock quantity cannot be negative")
    ELSE
    LET r == <<technician, article>>
        db1 == get_or_create_stock(db, technician, article)
        old_quantity == db1.stock[r].quantity
        delta == new_quantity - old_quantity
    IN  IF delta = 0 THEN Fail(db1, "No change in quantity")
        ELSE
        LET db2 == [db1 EXCEPT !.stock[r].quantity = new_quantity]
            db3 == create_movement(db2, Movement(technician, article, delta,
                                                 "ADJUST", NoId, new_quantity))
            db4 == log_event(db3, "StockMovement", Len(db3.movements), "adjust_stock")
        IN Ok(IF delta < 0 THEN _check_threshold_for_stock(db4, r, t) ELSE db4)

adjust_stock(db, technician, article, new_quantity, t) ==
    atomic(db, adjust_stock_body(db, technician, article, new_quantity, t))

transfer_stock_body(db, from_technician, to_technician, article, quantity, t) ==
    IF from_technician = to_technician THEN Fail(db, "Cannot transfer to same technician")
    ELSE IF quantity <= 0 THEN Fail(db, "Transfer quantity must be positive")
    ELSE
    LET rf == <<from_technician, article>>
        rt == <<to_technician, article>>
    IN  IF ~db.stock[rf].exists
        THEN Fail(db, "Source technician has no stock for this article")
        ELSE IF available_quantity(db.stock[rf]) < quantity
        THEN Fail(db, "Insufficient stock for transfer")
        ELSE
        LET db1 == get_or_create_stock(db, to_technician, article)
            c == consume_stock(db1.stock[rf], quantity)
        IN  IF ~c.ok THEN Fail(db1, c.err)
            ELSE
            LET to1 == [db1.stock[rt] EXCEPT !.quantity = @ + quantity]
                db2 == [db1 EXCEPT !.stock[rf] = c.val, !.stock[rt] = to1]
                db3 == create_movement(db2, Movement(from_technician, article, -quantity,
                                                     "TRANSFER", NoId, c.val.quantity))
                db4 == create_movement(db3, Movement(to_technician, article, quantity,
                                                     "TRANSFER", NoId, to1.quantity))
                db5 == log_event(db4, "StockMovement", Len(db3.movements), "transfer_stock_out")
                db6 == log_event(db5, "StockMovement", Len(db4.movements), "transfer_stock_in")
            IN Ok(_check_threshold_for_stock(db6, rf, t))

transfer_stock(db, from_technician, to_technician, article, quantity, t) ==
    atomic(db, transfer_stock_body(db, from_technician, to_technician, article, quantity, t))

----------------------------------------------------------------------------
(* apps/api/views/orders_views.py: reservations.  The three views run their
   statements without an enclosing transaction.atomic, so a raise keeps the
   writes made before it. *)

create_reservation(db, technician, article, qty_reserved) ==
    LET db1 == [db EXCEPT !.reservations =
                    Append(@, [technician |-> technician, article |-> article,
                               qty_reserved |-> qty_reserved, status |-> "PENDING"])]
    IN propagate(Ok(log_event(db1, "Reservation", Len(db1.reservations),
                              "create_reservation")))

(* Reservation.can_approve *)
can_approve(r) == r.status = "PENDING" /\ r.qty_reserved > 0

(* Reservation.approve *)
Reservation_approve(db, id) ==
    LET r == db.reservations[id] IN
    IF ~can_approve(r) THEN Fail(db, "Reservation cannot be approved")
    ELSE
    LET db1 == get_or_create_stock(db, r.technician, r.article)
        rv == reserve_quantity(db1.stock[<<r.technician, r.article>>], r.qty_reserved)
    IN  IF ~rv.ok THEN Fail(db1, rv.err)
        ELSE Ok([db1 EXCEPT !.stock[<<r.technician, r.article>>] = rv.val,
                            !.reservations[id].status = "APPROVED"])

approve_reservation(db, id) ==
    IF id \notin DOMAIN db.reservations THEN Fail(db, "Reservation not found")
    ELSE IF db.reservations[id].status # "PENDING" THEN Fail(db, "Reservation is not pending")
    ELSE
    LET a == Reservation_approve(db, id) IN
    IF ~a.ok THEN a
    ELSE propagate(Ok(log_event(a.db, "Reservation", id, "approve_reservation")))

cancel_reservation(db, id) ==
    IF id \notin DOMAIN db.reservations THEN Fail(db, "Reservation not found")
    ELSE
    LET r == db.reservations[id]
        row == <<r.technician, r.article>>
    IN  IF r.status = "CANCELLED" THEN Ok(db)
        ELSE
        LET rel == IF r.status = "APPROVED" /\ r.qty_reserved > 0
                   THEN IF ~db.stock[row].exists
                        THEN [ok |-> FALSE, err |-> "StockTech matching query does not exist",
                              val |-> db.stock[row]]
                        ELSE release_reservation(db.stock[row], r.qty_reserved)
                   ELSE [ok |-> TRUE, err |-> "", val |-> db.stock[row]]
        IN  IF ~rel.ok THEN Fail(db, rel.err)
            ELSE LET db1 == [db EXCEPT !.stock[row] = rel.val,
                                       !.reservations[id].status = "CANCELLED"]
                 IN propagate(Ok(log_event(db1, "Reservation", id, "cancel_reservation")))

----------------------------------------------------------------------------
(* apps/orders/models.py: Panier, Demande and their lines.  A line is keyed
   by its article (unique_together with its cart or demand); articles are
   visited in ArticleOrder. *)

ArticleOrder == <<"a1", "a2">>
ArticleIndex(a) == CHOOSE i \in 1..Len(ArticleOrder) : ArticleOrder[i] = a
LineId(parent, a) == (parent - 1) * Len(ArticleOrder) + ArticleIndex(a)

NoLine == [exists |-> FALSE, qty_requested |-> 0, qty_approved |-> 0, qty_prepared |-> 0]
NoCartLines == [a \in Article |-> 0]
NoDemande == [id |-> NoId, status |-> "none"]

Panier(technician) == [technician |-> technician, status |-> "DRAFT", lines |-> NoCartLines]

DraftCarts(db, technician) ==
    {i \in 1..Len(db.paniers) :
        db.paniers[i].technician = technician /\ db.paniers[i].status = "DRAFT"}

unique_draft_cart_per_technician_dropped(rows, technician) == FALSE

(* Meta.constraints, unique_draft_cart_per_technician: the INSERT of a DRAFT
   cart of `technician` collides with one of `rows` *)
unique_draft_cart_per_technician(rows, technician) ==
    \E c \in rows : c.technician = technician /\ c.status = "DRAFT"

can_be_submitted_ignores_inactive(db, c) ==
    /\ c.status = "DRAFT"
    /\ \E a \in Article : c.lines[a] > 0

(* Panier.can_be_submitted *)
can_be_submitted(db, c) ==
    /\ c.status = "DRAFT"
    /\ \E a \in Article : c.lines[a] > 0
    /\ \A a \in Article : c.lines[a] > 0 => a \notin db.inactive

DemandesOf(db, cart) == {i \in 1..Len(db.demandes) : db.demandes[i].panier = cart}

DemandeFrom_unit_quantity(c, cart) ==
    [technician |-> c.technician, status |-> "SUBMITTED", panier |-> cart,
     handover_method |-> "",
     lines |-> [a \in Article |->
                   IF c.lines[a] > 0
                   THEN [exists |-> TRUE, qty_requested |-> 1,
                         qty_approved |-> 0, qty_prepared |-> 0]
                   ELSE NoLine]]

(* Panier.submit, lines 120-133: the Demande and its DemandeLine rows *)
DemandeFrom(c, cart) ==
    [technician |-> c.technician, status |-> "SUBMITTED", panier |-> cart,
     handover_method |-> "",
     lines |-> [a \in Article |->
                   IF c.lines[a] > 0
                   THEN [exists |-> TRUE, qty_requested |-> c.lines[a],
                         qty_approved |-> 0, qty_prepared |-> 0]
                   ELSE NoLine]]

Panier_submit_cart_only(db, c, cart) ==
    IF ~can_be_submitted(db, c) THEN Fail(db, "Cart cannot be submitted")
    ELSE Ok([db EXCEPT !.paniers[cart].status = "SUBMITTED"])

(* Panier.submit on the instance c of cart row `cart` *)
Panier_submit(db, c, cart) ==
    IF ~can_be_submitted(db, c) THEN Fail(db, "Cart cannot be submitted")
    ELSE atomic(db,
           LET db1 == [db EXCEPT !.paniers[cart].status = "SUBMITTED"] IN
           IF DemandesOf(db1, cart) # {}
           THEN Fail(db1, "IntegrityError: orders_demande.panier_id is not unique")
           ELSE Ok([db1 EXCEPT !.demandes = Append(@, DemandeFrom(c, cart))]))

RECURSIVE SumApproved(_, _)
SumApproved(lines, n) ==
    IF n = 0 THEN 0 ELSE SumApproved(lines, n - 1) + lines[ArticleOrder[n]].qty_approved

(* Demande.total_approved_quantity *)
total_approved_quantity(db, id) == SumApproved(db.demandes[id].lines, Len(ArticleOrder))

is_fully_approved_any_line(db, id) ==
    \E a \in Article :
        /\ db.demandes[id].lines[a].exists
        /\ db.demandes[id].lines[a].qty_approved = db.demandes[id].lines[a].qty_requested

(* Demande.is_fully_approved *)
is_fully_approved(db, id) ==
    \A a \in Article :
        db.demandes[id].lines[a].exists =>
            db.demandes[id].lines[a].qty_approved = db.demandes[id].lines[a].qty_requested

(* Demande.can_be_prepared, on the instance the caller holds *)
can_be_prepared(db, demande) ==
    /\ demande.status \in {"APPROVED", "PARTIAL"}
    /\ total_approved_quantity(db, demande.id) > 0

(* Demande.can_be_handed_over *)
can_be_handed_over(demande) == demande.status = "PREPARED"

----------------------------------------------------------------------------
(* apps/orders/services/panier_service.py *)

get_or_create_active_cart(db, technician) ==
    IF DraftCarts(db, technician) # {}
    THEN [db |-> db, id |-> CHOOSE i \in DraftCarts(db, technician) : TRUE]
    ELSE LET db1 == [db EXCEPT !.paniers = Append(@, Panier(technician))]
         IN [db |-> log_event(db1, "Panier", Len(db1.paniers), "create_cart"),
             id |-> Len(db1.paniers)]

add_to_cart_line_overwrite(db, cart, article, quantity) ==
    IF db.paniers[cart].status # "DRAFT"
    THEN Fail(db, "Cannot modify a submitted cart")
    ELSE Ok(log_event([db EXCEPT !.paniers[cart].lines[article] = quantity],
                      "PanierLine", LineId(cart, article), "add_to_cart"))

(* add_to_cart, lines 72-114: the line of `cart`, the cart the call holds *)
add_to_cart_line(db, cart, article, quantity) ==
    LET old == db.paniers[cart].lines[article] IN
    IF db.paniers[cart].status # "DRAFT"
    THEN Fail(db, "Cannot modify a submitted cart")
    ELSE IF old = 0
    THEN Ok(log_event([db EXCEPT !.paniers[cart].lines[article] = quantity],
                      "PanierLine", LineId(cart, article), "add_to_cart"))
    ELSE Ok(log_event([db EXCEPT !.paniers[cart].lines[article] = old + quantity],
                      "PanierLine", LineId(cart, article), "update_cart_line"))

add_to_cart_body(db, technician, article, quantity) ==
    IF article \in db.inactive THEN Fail(db, "Cannot add inactive article to cart")
    ELSE IF quantity <= 0 THEN Fail(db, "Quantity must be positive")
    ELSE
    LET g == get_or_create_active_cart(db, technician)
    IN  add_to_cart_line(g.db, g.id, article, quantity)

add_to_cart(db, technician, article, quantity) ==
    atomic(db, add_to_cart_body(db, technician, article, quantity))

update_cart_line_quantity_body_any_status(db, technician, cart, article, new_quantity) ==
    IF \/ cart \notin 1..Len(db.paniers)
       \/ db.paniers[cart].technician # technician
       \/ db.paniers[cart].lines[article] = 0
    THEN Fail(db, "Cart line not found")
    ELSE IF new_quantity <= 0
    THEN Ok([log_event(db, "PanierLine", LineId(cart, article), "remove_from_cart")
                EXCEPT !.paniers[cart].lines[article] = 0])
    ELSE Ok(log_event([db EXCEPT !.paniers[cart].lines[article] = new_quantity],
                      "PanierLine", LineId(cart, article), "update_cart_line"))

update_cart_line_quantity_body(db, technician, cart, article, new_quantity) ==
    IF \/ cart \notin 1..Len(db.paniers)
       \/ db.paniers[cart].technician # technician
       \/ db.paniers[cart].lines[article] = 0
    THEN Fail(db, "Cart line not found")
    ELSE IF db.paniers[cart].status # "DRAFT"
    THEN Fail(db, "Cannot modify a submitted cart")
    ELSE IF new_quantity <= 0
    THEN Ok([log_event(db, "PanierLine", LineId(cart, article), "remove_from_cart")
                EXCEPT !.paniers[cart].lines[article] = 0])
    ELSE Ok(log_event([db EXCEPT !.paniers[cart].lines[article] = new_quantity],
                      "PanierLine", LineId(cart, article), "update_cart_line"))

update_cart_line_quantity(db, technician, cart, article, new_quantity) ==
    atomic(db, update_cart_line_quantity_body(db, technician, cart, article, new_quantity))

(* submit_cart; `seen` is the database as the call read it under its lock *)
submit_cart_body(seen, technician) ==
    IF DraftCarts(seen, technician) = {} THEN Fail(seen, "No active cart found")
    ELSE
    LET cart == CHOOSE i \in DraftCarts(seen, technician) : TRUE IN
    IF ~can_be_submitted(seen, seen.paniers[cart]) THEN Fail(seen, "Cart cannot be submitted")
    ELSE
    LET s == Panier_submit(seen, seen.paniers[cart], cart) IN
    IF ~s.ok THEN s
    ELSE Ok(log_event(log_event(s.db, "Panier", cart, "submit_cart"),
                      "Demande", Len(s.db.demandes), "create_demand"))

submit_cart(db, technician) == atomic(db, submit_cart_body(db, technician))

clear_cart_body(db, technician) ==
    IF DraftCarts(db, technician) = {} THEN Ok(db)
    ELSE
    LET cart == CHOOSE i \in DraftCarts(db, technician) : TRUE IN
    Ok(log_event([db EXCEPT !.paniers[cart].lines = NoCartLines],
                 "Panier", cart, "clear_cart"))

clear_cart(db, technician) == atomic(db, clear_cart_body(db, technician))

----------------------------------------------------------------------------
(* apps/orders/services/admin_workflow.py.  `demande` is the Demande instance
   the caller fetched: its status is the one read then, its lines are read
   from the database when the call runs, and save(update_fields=...) writes
   the status of the instance. *)

SetStatus(db, id, status) == [db EXCEPT !.demandes[id].status = status]

approve_demand_full_body_status_only(db, demande, is_admin) ==
    IF ~is_admin THEN Fail(db, "Only administrators can approve demands")
    ELSE IF demande.status # "SUBMITTED" THEN Fail(db, "Only submitted demands can be approved")
    ELSE Ok(log_event(SetStatus(db, demande.id, "APPROVED"),
                      "Demande", demande.id, "approve_demand_full"))

approve_demand_full_body(db, demande, is_admin) ==
    IF ~is_admin THEN Fail(db, "Only administrators can approve demands")
    ELSE IF demande.status # "SUBMITTED" THEN Fail(db, "Only submitted demands can be approved")
    ELSE
    LET ls == db.demandes[demande.id].lines
        db1 == [db EXCEPT !.demandes[demande.id].lines =
                   [a \in Article |-> IF ls[a].exists
                                      THEN [ls[a] EXCEPT !.qty_approved = ls[a].qty_requested]
                                      ELSE ls[a]]]
    IN Ok(log_event(SetStatus(db1, demande.id, "APPROVED"),
                    "Demande", demande.id, "approve_demand_full"))

approve_demand_full(db, demande, is_admin) ==
    atomic(db, approve_demand_full_body(db, demande, is_admin))

(* the loop over line_approvals, lines 109-138, from entry i on *)
RECURSIVE apply_line_approvals(_, _, _, _)
apply_line_approvals(db, id, line_approvals, i) ==
    IF i > Len(line_approvals) THEN Ok(db)
    ELSE
    LET line_id == line_approvals[i].line_id
        qty_approved == line_approvals[i].qty_approved
    IN  IF line_id \notin Article \/ ~db.demandes[id].lines[line_id].exists
        THEN Fail(db, "Demand line not found")
        ELSE IF qty_approved < 0 THEN Fail(db, "Approved quantity cannot be negative")
        ELSE IF qty_approved > db.demandes[id].lines[line_id].qty_requested
        THEN Fail(db, "Approved quantity cannot exceed requested quantity")
        ELSE apply_line_approvals(
                 [db EXCEPT !.demandes[id].lines[line_id].qty_approved = qty_approved],
                 id, line_approvals, i + 1)

approve_demand_partial_body_never_refused(db, demande, is_admin, line_approvals) ==
    IF ~is_admin THEN Fail(db, "Only administrators can approve demands")
    ELSE IF demande.status # "SUBMITTED" THEN Fail(db, "Only submitted demands can be approved")
    ELSE
    LET a == apply_line_approvals(db, demande.id, line_approvals, 1) IN
    IF ~a.ok THEN a
    ELSE
    LET new_status == IF is_fully_approved(a.db, demande.id) THEN "APPROVED" ELSE "PARTIAL"
    IN Ok(log_event(SetStatus(a.db, demande.id, new_status),
                    "Demande", demande.id, "approve_demand_partial"))

approve_demand_partial_body(db, demande, is_admin, line_approvals) ==
    IF ~is_admin THEN Fail(db, "Only administrators can approve demands")
    ELSE IF demande.status # "SUBMITTED" THEN Fail(db, "Only submitted demands can be approved")
    ELSE
    LET a == apply_line_approvals(db, demande.id, line_approvals, 1) IN
    IF ~a.ok THEN a
    ELSE
    LET new_status == IF is_fully_approved(a.db, demande.id) THEN "APPROVED"
                      ELSE IF total_approved_quantity(a.db, demande.id) > 0 THEN "PARTIAL"
                      ELSE "REFUSED"
    IN Ok(log_event(SetStatus(a.db, demande.id, new_status),
                    "Demande", demande.id, "approve_demand_partial"))

approve_demand_partial_no_rollback(db, demande, is_admin, line_approvals) ==
    propagate(approve_demand_partial_body(db, demande, is_admin, line_approvals))

approve_demand_partial(db, demande, is_admin, line_approvals) ==
    atomic(db, approve_demand_partial_body(db, demande, is_admin, line_approvals))

refuse_demand_body(db, demande, is_admin) ==
    IF ~is_admin THEN Fail(db, "Only administrators can refuse demands")
    ELSE IF demande.status # "SUBMITTED" THEN Fail(db, "Only submitted demands can be refused")
    ELSE
    LET ls == db.demandes[demande.id].lines
        db1 == [db EXCEPT !.demandes[demande.id].lines =
                   [a \in Article |-> IF ls[a].exists
                                      THEN [ls[a] EXCEPT !.qty_approved = 0]
                                      ELSE ls[a]]]
    IN Ok(log_event(SetStatus(db1, demande.id, "REFUSED"),
                    "Demande", demande.id, "refuse_demand"))

refuse_demand(db, demande, is_admin) == atomic(db, refuse_demand_body(db, demande, is_admin))

prepare_line_strict(db, id, article) ==
    LET technician == db.demandes[id].technician
        r == <<technician, article>>
        db1 == get_or_create_stock(db, technician, article)
        line == db1.demandes[id].lines[article]
        rv == reserve_quantity(db1.stock[r], line.qty_approved)
    IN  IF ~rv.ok THEN Fail(db1, "Failed to prepare line")
        ELSE Ok([db1 EXCEPT !.stock[r] = rv.val,
                            !.demandes[id].lines[article].qty_prepared = line.qty_approved])

(* prepare_demand, lines 250-288: one approved line *)
prepare_line(db, id, article) ==
    LET technician == db.demandes[id].technician
        r == <<technician, article>>
        db1 == get_or_create_stock(db, technician, article)
        line == db1.demandes[id].lines[article]
        available == available_quantity(db1.stock[r])
        qty == IF available >= line.qty_approved THEN line.qty_approved
               ELSE IF available > 0 THEN available
               ELSE 0
        rv == IF qty > 0 THEN reserve_quantity(db1.stock[r], qty)
              ELSE [ok |-> TRUE, err |-> "", val |-> db1.stock[r]]
    IN  IF ~rv.ok THEN Fail(db1, "Failed to prepare line")
        ELSE Ok([db1 EXCEPT !.stock[r] = rv.val,
                            !.demandes[id].lines[article].qty_prepared = qty])

(* the loop over demande.lines.filter(qty_approved__gt=0), from article i on *)
RECURSIVE prepare_lines(_, _, _)
prepare_lines(db, id, i) ==
    IF i > Len(ArticleOrder) THEN Ok(db)
    ELSE IF db.demandes[id].lines[ArticleOrder[i]].qty_approved > 0
    THEN LET p == prepare_line(db, id, ArticleOrder[i]) IN
         IF ~p.ok THEN p ELSE prepare_lines(p.db, id, i + 1)
    ELSE prepare_lines(db, id, i + 1)

prepare_demand_body(db, demande, is_admin) ==
    IF ~is_admin THEN Fail(db, "Only administrators can prepare demands")
    ELSE IF ~can_be_prepared(db, demande) THEN Fail(db, "Demand cannot be prepared")
    ELSE
    LET p == prepare_lines(db, demande.id, 1) IN
    IF ~p.ok THEN p
    ELSE Ok(log_event(SetStatus(p.db, demande.id, "PREPARED"),
                      "Demande", demande.id, "prepare_demand"))

prepare_demand(db, demande, is_admin) == atomic(db, prepare_demand_body(db, demande, is_admin))

(* hashlib.pbkdf2_hmac('sha256', pin.encode(), b'stock_system_salt', 100000).hex():
   a fixed salt, so equal PINs give equal digests and different PINs different ones *)
pbkdf2_hmac(pin) == <<"sha256", "stock_system_salt", pin>>

(* AdminWorkflow.generate_pin; `pin` is the value secrets.choice drew *)
generate_pin(db, demande, pin, t) ==
    Ok([db EXCEPT !.pins = Append(@,
            [user |-> db.demandes[demande.id].technician,
             pin_hash |-> pbkdf2_hmac(pin),
             demande_id |-> demande.id,
             expires_at |-> t + PIN_EXPIRY_MINUTES,
             is_used |-> FALSE])])

(* PINCode.objects.get(user=, demande_id=, pin_hash=, is_used=False): the rows it matches *)
MatchingPins(db, demande, pin) ==
    {i \in 1..Len(db.pins) :
        /\ db.pins[i].user = db.demandes[demande.id].technician
        /\ db.pins[i].demande_id = demande.id
        /\ db.pins[i].pin_hash = pbkdf2_hmac(pin)
        /\ ~db.pins[i].is_used}

(* PINCode.is_expired *)
is_expired(pin_record, t) == t > pin_record.expires_at

_validate_pin(db, demande, pin, t) ==
    LET m == MatchingPins(db, demande, pin) IN
    IF m = {} THEN Fail(db, "Invalid PIN")
    ELSE IF Cardinality(m) > 1 THEN Fail(db, "MultipleObjectsReturned")
    ELSE IF is_expired(db.pins[CHOOSE i \in m : TRUE], t) THEN Fail(db, "PIN has expired")
    ELSE Ok(db)

_mark_pin_used(db, demande, pin) ==
    LET m == MatchingPins(db, demande, pin) IN
    IF m = {} THEN Fail(db, "PINCode matching query does not exist")
    ELSE IF Cardinality(m) > 1 THEN Fail(db, "MultipleObjectsReturned")
    ELSE Ok([db EXCEPT !.pins[CHOOSE i \in m : TRUE].is_used = TRUE])

(* signature_data is "" when absent, "valid" when it decodes to at most
   SIGNATURE_MAX_SIZE bytes, and otherwise undecodable or too large *)
_validate_signature(db, signature_data) ==
    IF signature_data = "valid" THEN Ok(db) ELSE Fail(db, "Invalid signature data")

_should_auto_close_never(demande) == FALSE

(* AdminWorkflow._should_auto_close *)
_should_auto_close(demande) == demande.status = "HANDED_OVER"

close_demand_body(db, demande) ==
    IF demande.status # "HANDED_OVER" THEN Fail(db, "Only handed over demands can be closed")
    ELSE Ok(log_event(SetStatus(db, demande.id, "CLOSED"),
                      "Demande", demande.id, "close_demand"))

close_demand(db, demande) == atomic(db, close_demand_body(db, demande))

(* handover_demand, lines 356-369: receive_stock for prepared lines from article i on *)
RECURSIVE handover_lines(_, _, _)
handover_lines(db, id, i) ==
    IF i > Len(ArticleOrder) THEN Ok(db)
    ELSE
    LET line == db.demandes[id].lines[ArticleOrder[i]] IN
    IF line.qty_prepared > 0
    THEN LET m == receive_stock(db, db.demandes[id].technician, ArticleOrder[i],
                                line.qty_prepared, id)
         IN IF ~m.ok THEN m ELSE handover_lines(m.db, id, i + 1)
    ELSE handover_lines(db, id, i + 1)

handover_demand_body(db, demande, method, pin, signature_data, t) ==
    IF ~can_be_handed_over(demande) THEN Fail(db, "Demand cannot be handed over")
    ELSE IF method \notin {"PIN", "SIGNATURE"} THEN Fail(db, "Invalid handover method")
    ELSE
    LET v == IF method = "PIN"
             THEN IF pin = "" THEN Fail(db, "PIN is required for PIN handover")
                  ELSE _validate_pin(db, demande, pin, t)
             ELSE IF signature_data = ""
                  THEN Fail(db, "Signature is required for signature handover")
                  ELSE _validate_signature(db, signature_data)
    IN  IF ~v.ok THEN v
        ELSE
        LET h == handover_lines(db, demande.id, 1) IN
        IF ~h.ok THEN h
        ELSE
        LET db1 == [SetStatus(h.db, demande.id, "HANDED_OVER")
                       EXCEPT !.demandes[demande.id].handover_method = method]
            handed == [demande EXCEPT !.status = "HANDED_OVER"]
            u == IF method = "PIN" THEN _mark_pin_used(db1, demande, pin) ELSE Ok(db1)
        IN  IF ~u.ok THEN u
            ELSE
            LET db2 == log_event(u.db, "Demande", demande.id, "handover_demand") IN
            IF _should_auto_close(handed) THEN close_demand(db2, handed) ELSE Ok(db2)

handover_demand(db, demande, method, pin, signature_data, t) ==
    atomic(db, handover_demand_body(db, demande, method, pin, signature_data, t))

----------------------------------------------------------------------------
(* Actions: one request served to completion *)

Commit(res) ==
    /\ stock' = res.db.stock
    /\ movements' = res.db.movements
    /\ events' = res.db.events
    /\ threshold' = res.db.threshold
    /\ alerts' = res.db.alerts
    /\ reservations' = res.db.reservations
    /\ paniers' = res.db.paniers
    /\ demandes' = res.db.demandes
    /\ pins' = res.db.pins

Call(op, res, technician, article, qty, aux) ==
    [op |-> op, ok |-> res.ok, err |-> res.err, tech |-> technician,
     art |-> article, qty |-> qty, aux |-> aux]

NoCall == [op |-> "none", ok |-> TRUE, err |-> "", tech |-> "t1", art |-> "a1",
           qty |-> 0, aux |-> 0]

(* The stock a technician holds when the first request arrives, as left by
   one earlier receipt; rows are created lazily, so the other technician has
   none yet. *)
SeedStock(db, t, a, q) == receive_stock(db, t, a, q, NoId).db

SeedReservation(db, t, a, q) == create_reservation(db, t, a, q).db

SeedThreshold(db, t, a, m) ==
    [db EXCEPT !.threshold[<<t, a>>] =
         [exists |-> TRUE, min_qty |-> m, is_active |-> TRUE, last_alert_sent |-> Never]]

LedgerSeed(q, rq) ==
    SeedReservation(SeedStock(SeedThreshold(EmptyDB, "t1", "a1", 1), "t1", "a1", q),
                    "t1", "a1", rq)

SeedEvents == Len(LedgerSeed(1, 1).events)

LedgerArticle == {"a1"}
LedgerOpen == Len(events) < SeedEvents + MaxLedgerOps

Issue(t, a, q) ==
    /\ LedgerOpen
    /\ LET res == issue_stock(DB, t, a, q, NoId, now) IN
       Commit(res) /\ last' = Call("issue", res, t, a, q, 0)
    /\ UNCHANGED <<now, loaded, txn, calls>>

Receive(t, a, q) ==
    /\ LedgerOpen
    /\ LET res == receive_stock(DB, t, a, q, NoId) IN
       Commit(res) /\ last' = Call("receive", res, t, a, q, 0)
    /\ UNCHANGED <<now, loaded, txn, calls>>

Adjust(t, a, n) ==
    /\ LedgerOpen
    /\ LET res == adjust_stock(DB, t, a, n, now) IN
       Commit(res) /\ last' = Call("adjust", res, t, a, n, 0)
    /\ UNCHANGED <<now, loaded, txn, calls>>

Transfer(f, t, a, q) ==
    /\ LedgerOpen
    /\ LET res == transfer_stock(DB, f, t, a, q, now) IN
       Commit(res) /\ last' = Call("transfer", res, f, a, q, t)
    /\ UNCHANGED <<now, loaded, txn, calls>>

CreateReservation(t, a, q) ==
    /\ LedgerOpen
    /\ Len(reservations) < MaxReservations
    /\ LET res == create_reservation(DB, t, a, q) IN
       Commit(res) /\ last' = Call("create_reservation", res, t, a, q, Len(reservations) + 1)
    /\ UNCHANGED <<now, loaded, txn, calls>>

ApproveReservation(id) ==
    /\ LedgerOpen
    /\ LET res == approve_reservation(DB, id)
           r == reservations[id]
       IN Commit(res)
          /\ last' = Call("approve_reservation", res, r.technician, r.article, r.qty_reserved, id)
    /\ UNCHANGED <<now, loaded, txn, calls>>

CancelReservation(id) ==
    /\ LedgerOpen
    /\ LET res == cancel_reservation(DB, id)
           r == reservations[id]
       IN Commit(res)
          /\ last' = Call("cancel_reservation", res, r.technician, r.article, r.qty_reserved, id)
    /\ UNCHANGED <<now, loaded, txn, calls>>

IdleTxn == [pc |-> "idle", op |-> "none", tech |-> "t1", to |-> "t1", art |-> "a1",
            qty |-> 0, held |-> {}, from_stock |-> NoStock, to_stock |-> NoStock,
            cart |-> NoId, panier |-> Panier("t1"), event |-> EventLog("", NoId, "", 0),
            threshold |-> NoThreshold]

InitFrom(db) ==
    /\ stock = db.stock
    /\ movements = db.movements
    /\ events = db.events
    /\ threshold = db.threshold
    /\ alerts = db.alerts
    /\ reservations = db.reservations
    /\ paniers = db.paniers
    /\ demandes = db.demandes
    /\ pins = db.pins
    /\ now = 0
    /\ last = NoCall
    /\ loaded = [p \in Proc |-> NoDemande]
    /\ txn = [p \in Proc |-> IdleTxn]
    /\ calls = <<>>

Init == \E q \in 1..MaxQty, rq \in 1..MaxQty : InitFrom(LedgerSeed(q, rq))

Next ==
    \/ \E t \in Tech, a \in LedgerArticle, q \in 0..MaxQty : Issue(t, a, q)
    \/ \E t \in Tech, a \in LedgerArticle, q \in 0..MaxQty : Receive(t, a, q)
    \/ \E t \in Tech, a \in LedgerArticle, n \in (-1)..MaxQty : Adjust(t, a, n)
    \/ \E f \in Tech, t \in Tech, a \in LedgerArticle, q \in 0..MaxQty : Transfer(f, t, a, q)
    \/ \E t \in Tech, a \in LedgerArticle, q \in 1..MaxQty : CreateReservation(t, a, q)
    \/ \E id \in DOMAIN reservations : ApproveReservation(id)
    \/ \E id \in DOMAIN reservations : CancelReservation(id)

Spec == Init /\ [][Next]_vars

----------------------------------------------------------------------------
(* Concurrent stock calls.  Each connection runs issue_stock or transfer_stock
   statement by statement: select_for_update() blocks while another open
   transaction holds the row, the row is read into the StockTech instance of
   the call, and save() writes that instance back when the call commits. *)

RowFree_no_lock(r, p) == TRUE

(* select_for_update(): the row is not locked by another open transaction *)
RowFree(r, p) == \A o \in Proc \ {p} : r \notin txn[o].held

ConcOpen == Len(calls) + Cardinality({p \in Proc : txn[p].pc # "idle"}) < MaxConcCalls

Finished(p, res) ==
    /\ Commit(res)
    /\ txn' = [txn EXCEPT ![p] = IdleTxn]
    /\ calls' = Append(calls, [proc |-> p, op |-> txn[p].op, tech |-> txn[p].tech,
                               to |-> txn[p].to, art |-> txn[p].art,
                               qty |-> txn[p].qty, ok |-> res.ok, err |-> res.err])
    /\ last' = Call(txn[p].op, res, txn[p].tech, txn[p].art, txn[p].qty, 0)

(* issue_stock, lines 58-63: lock the row and read it *)
IssueLock(p, t, a, q) ==
    /\ txn[p].pc = "idle"
    /\ ConcOpen
    /\ RowFree(<<t, a>>, p)
    /\ txn' = [txn EXCEPT ![p] = [IdleTxn EXCEPT !.pc = "issue_write", !.op = "issue",
                                     !.tech = t, !.to = t, !.art = a, !.qty = q,
                                     !.held = {<<t, a>>},
                                     !.from_stock = stock[<<t, a>>]]]
    /\ UNCHANGED <<stock, movements, events, threshold, alerts, reservations,
                   paniers, demandes, pins, now, last, loaded, calls>>

(* issue_stock, lines 65-109: check, consume, save, record, commit *)
IssueWrite(p) ==
    /\ txn[p].pc = "issue_write"
    /\ LET x == txn[p]
           seen == [DB EXCEPT !.stock[<<x.tech, x.art>>] = x.from_stock]
       IN Finished(p, atomic(DB, issue_stock_body(seen, x.tech, x.art, x.qty, NoId, now)))
    /\ UNCHANGED <<now, loaded>>

(* transfer_stock, lines 285-304: validate, lock and read the source row *)
TransferLockFrom(p, f, t, a, q) ==
    /\ txn[p].pc = "idle"
    /\ ConcOpen
    /\ f # t /\ q > 0
    /\ RowFree(<<f, a>>, p)
    /\ stock[<<f, a>>].exists
    /\ available_quantity(stock[<<f, a>>]) >= q
    /\ txn' = [txn EXCEPT ![p] = [IdleTxn EXCEPT !.pc = "transfer_lock_to", !.op = "transfer",
                                     !.tech = f, !.to = t, !.art = a, !.qty = q,
                                     !.held = {<<f, a>>},
                                     !.from_stock = stock[<<f, a>>]]]
    /\ UNCHANGED <<stock, movements, events, threshold, alerts, reservations,
                   paniers, demandes, pins, now, last, loaded, calls>>

(* transfer_stock, lines 285-304, when the call is refused before or at the
   source row: nothing is held afterwards *)
TransferRefused(p, f, t, a, q) ==
    /\ txn[p].pc = "idle"
    /\ ConcOpen
    /\ RowFree(<<f, a>>, p)
    /\ f = t \/ q <= 0 \/ ~stock[<<f, a>>].exists \/ available_quantity(stock[<<f, a>>]) < q
    /\ LET res == transfer_stock(DB, f, t, a, q, now) IN
       /\ Commit(res)
       /\ calls' = Append(calls, [proc |-> p, op |-> "transfer", tech |-> f, to |-> t,
                                  art |-> a, qty |-> q, ok |-> res.ok, err |-> res.err])
       /\ last' = Call("transfer", res, f, a, q, t)
    /\ UNCHANGED <<now, loaded, txn>>

(* transfer_stock, lines 306-311: lock and read the destination row *)
TransferLockTo(p) ==
    /\ txn[p].pc = "transfer_lock_to"
    /\ RowFree(<<txn[p].to, txn[p].art>>, p)
    /\ txn' = [txn EXCEPT ![p].pc = "transfer_write",
                          ![p].held = @ \cup {<<txn[p].to, txn[p].art>>},
                          ![p].to_stock = stock[<<txn[p].to, txn[p].art>>]]
    /\ UNCHANGED <<stock, movements, events, threshold, alerts, reservations,
                   paniers, demandes, pins, now, last, loaded, calls>>

(* transfer_stock, lines 313-378: move the quantity, record, commit *)
TransferWrite(p) ==
    /\ txn[p].pc = "transfer_write"
    /\ LET x == txn[p]
           seen == [DB EXCEPT !.stock[<<x.tech, x.art>>] = x.from_stock,
                              !.stock[<<x.to, x.art>>] = x.to_stock]
       IN Finished(p, atomic(DB, transfer_stock_body(seen, x.tech, x.to, x.art, x.qty, now)))
    /\ UNCHANGED <<now, loaded>>

ConcSeed(q1, q2) ==
    SeedStock(SeedStock(EmptyDB, "t1", "a1", q1), "t2", "a1", q2)

InitConc == \E q1 \in 1..MaxQty, q2 \in 1..MaxQty : InitFrom(ConcSeed(q1, q2))

NextConc ==
    \/ \E p \in Proc, t \in Tech, a \in LedgerArticle, q \in 1..MaxQty : IssueLock(p, t, a, q)
    \/ \E p \in Proc : IssueWrite(p)
    \/ \E p \in Proc, f \in Tech, t \in Tech, a \in LedgerArticle, q \in 1..MaxQty :
           TransferLockFrom(p, f, t, a, q)
    \/ \E p \in Proc, f \in Tech, t \in Tech, a \in LedgerArticle, q \in 1..MaxQty :
           TransferRefused(p, f, t, a, q)
    \/ \E p \in Proc : TransferLockTo(p)
    \/ \E p \in Proc : TransferWrite(p)

SpecConc == InitConc /\ [][NextConc]_vars

----------------------------------------------------------------------------
(* Order workflow requests.  A view fetches the Demande with
   Demande.objects.get(id=...), without a lock, and then calls the service
   with that instance; other requests may commit in between. *)

MaxOrderQty == 1
MaxOrderCalls == 3
OrderTech == "t1"
LineIds == Article \cup {"zz"}

(* permission_classes([IsAdmin]) on the five workflow views *)
IsAdmin == TRUE

Load(p, d) ==
    /\ loaded[p] = NoDemande
    /\ loaded' = [loaded EXCEPT ![p] = [id |-> d, status |-> demandes[d].status]]
    /\ UNCHANGED <<stock, movements, events, threshold, alerts, reservations,
                   paniers, demandes, pins, now, last, txn, calls>>

WorkflowActions == {"approve_demand_full", "approve_demand_partial", "refuse_demand",
                    "prepare_demand", "handover_demand"}

OrderOpen ==
    Cardinality({i \in 1..Len(events) : events[i].action \in WorkflowActions}) < MaxOrderCalls

(* the service returns or raises and the view answers the request *)
Served(p, op, res, qty) ==
    /\ OrderOpen
    /\ Commit(res)
    /\ last' = Call(op, res, demandes[loaded[p].id].technician, "a1", qty, loaded[p].id)
    /\ loaded' = [loaded EXCEPT ![p] = NoDemande]
    /\ UNCHANGED <<now, txn, calls>>

ApproveFull(p) ==
    /\ loaded[p] # NoDemande
    /\ Served(p, "approve_full", approve_demand_full(DB, loaded[p], IsAdmin), 0)

ApprovePartial(p, line_approvals) ==
    /\ loaded[p] # NoDemande
    /\ Served(p, "approve_partial",
              approve_demand_partial(DB, loaded[p], IsAdmin, line_approvals), 0)

Refuse(p) ==
    /\ loaded[p] # NoDemande
    /\ Served(p, "refuse", refuse_demand(DB, loaded[p], IsAdmin), 0)

Prepare(p) ==
    /\ loaded[p] # NoDemande
    /\ Served(p, "prepare", prepare_demand(DB, loaded[p], IsAdmin), 0)

Handover(p, method, pin, signature_data) ==
    /\ loaded[p] # NoDemande
    /\ Served(p, "handover",
              handover_demand(DB, loaded[p], method, pin, signature_data, now), 0)

Close(p) ==
    /\ loaded[p] # NoDemande
    /\ Served(p, "close", close_demand(DB, loaded[p]), 0)

(* The database when the first admin request arrives: the technician holds
   `received` units of a1, `reserved` of them under an approved reservation,
   an adjustment may have emptied the row since, and has submitted a cart
   asking q1 of a1 and q2 of a2. *)
OrderStockSeed(received, reserved, emptied) ==
    LET d0 == IF received > 0 THEN SeedStock(EmptyDB, OrderTech, "a1", received) ELSE EmptyDB
        d1 == IF reserved > 0
              THEN approve_reservation(SeedReservation(d0, OrderTech, "a1", reserved), 1).db
              ELSE d0
    IN  IF emptied THEN adjust_stock(d1, OrderTech, "a1", 0, 0).db ELSE d1

OrderSeed(db, q1, q2) ==
    LET c1 == add_to_cart(db, OrderTech, "a1", q1).db
        c2 == IF q2 > 0 THEN add_to_cart(c1, OrderTech, "a2", q2).db ELSE c1
    IN submit_cart(c2, OrderTech).db

InitOrder ==
    \E received \in 0..MaxOrderQty, q1 \in 1..MaxOrderQty, q2 \in 0..1 :
        InitFrom(OrderSeed(OrderStockSeed(received, 0, FALSE), q1, q2))

LineApprovals ==
    LET one == [line_id : LineIds, qty_approved : (-1)..(MaxOrderQty + 1)]
    IN {<<x>> : x \in one} \cup
       {<<x, y>> : x \in {z \in one : z.line_id = "a1"}, y \in {z \in one : z.line_id = "a2"}}

HandoverInputs ==
    {[method |-> "NONE", pin |-> "", signature_data |-> ""],
     [method |-> "PIN", pin |-> "", signature_data |-> ""],
     [method |-> "PIN", pin |-> "1234", signature_data |-> ""],
     [method |-> "SIGNATURE", pin |-> "", signature_data |-> ""],
     [method |-> "SIGNATURE", pin |-> "", signature_data |-> "bad"],
     [method |-> "SIGNATURE", pin |-> "", signature_data |-> "valid"]}

NextOrder ==
    \/ \E p \in Proc, d \in DOMAIN demandes : Load(p, d)
    \/ \E p \in Proc : ApproveFull(p)
    \/ \E p \in Proc, la \in LineApprovals : ApprovePartial(p, la)
    \/ \E p \in Proc : Refuse(p)
    \/ \E p \in Proc : Prepare(p)
    \/ \E p \in Proc, h \in HandoverInputs : Handover(p, h.method, h.pin, h.signature_data)
    \/ \E p \in Proc : Close(p)

SpecOrder == InitOrder /\ [][NextOrder]_vars

----------------------------------------------------------------------------
(* Order preparation, one admin request at a time *)

MaxPrepareQty == 2
PrepareProc == {"p1"}

InitPrepare ==
    \E received \in 0..MaxPrepareQty, reserved \in 0..1, emptied \in BOOLEAN,
       q1 \in 1..MaxPrepareQty, q2 \in 0..1 :
        /\ reserved <= received
        /\ emptied => received > 0
        /\ InitFrom(OrderSeed(OrderStockSeed(received, reserved, emptied), q1, q2))

NextPrepare ==
    \/ \E p \in PrepareProc, d \in DOMAIN demandes : Load(p, d)
    \/ \E p \in PrepareProc : ApproveFull(p)
    \/ \E p \in PrepareProc, la \in LineApprovals : ApprovePartial(p, la)
    \/ \E p \in PrepareProc : Prepare(p)

SpecPrepare == InitPrepare /\ [][NextPrepare]_vars

----------------------------------------------------------------------------
(* Handover by PIN.  The technician has one PREPARED order and a later order
   still SUBMITTED; PINs are issued for either, the clock (in minutes here)
   advances, and handover requests present a PIN.  A request works on the
   Demande instance its view fetched, as in the other workflow actions. *)

MaxPins == 2
MaxPinDelay == 1
IssuedPins == {"1234"}
PresentedPins == {"", "1234", "5678"}

Snapshot(db, d) == [id |-> d, status |-> db.demandes[d].status]

PinSeed(received) ==
    LET s1 == OrderSeed(OrderStockSeed(received, 0, FALSE), 1, 0)
        a1 == approve_demand_full(s1, Snapshot(s1, 1), IsAdmin).db
        p1 == prepare_demand(a1, Snapshot(a1, 1), IsAdmin).db
    IN  submit_cart(add_to_cart(p1, OrderTech, "a1", 1).db, OrderTech).db

InitPin == \E received \in 0..MaxOrderQty : InitFrom(PinSeed(received))

GeneratePin(d, pin) ==
    /\ Len(pins) < MaxPins
    /\ Commit(generate_pin(DB, Snapshot(DB, d), pin, now))
    /\ UNCHANGED <<now, last, loaded, txn, calls>>

Tick(dt) ==
    /\ now + dt <= PIN_EXPIRY_MINUTES + MaxPinDelay
    /\ now' = now + dt
    /\ UNCHANGED <<stock, movements, events, threshold, alerts, reservations,
                   paniers, demandes, pins, last, loaded, txn, calls>>

HandoverPin(p, pin) ==
    /\ loaded[p] # NoDemande
    /\ LET res == handover_demand(DB, loaded[p], "PIN", pin, "", now) IN
        /\ Commit(res)
        /\ last' = Call("handover_pin", res, demandes[loaded[p].id].technician, "a1", 0,
                        loaded[p].id)
    /\ loaded' = [loaded EXCEPT ![p] = NoDemande]
    /\ UNCHANGED <<now, txn, calls>>

NextPin ==
    \/ \E d \in DOMAIN demandes, pin \in IssuedPins : GeneratePin(d, pin)
    \/ \E dt \in {1, PIN_EXPIRY_MINUTES} : Tick(dt)
    \/ \E p \in Proc : Load(p, 1)
    \/ \E p \in Proc, pin \in PresentedPins : HandoverPin(p, pin)

SpecPin == InitPin /\ [][NextPin]_vars

----------------------------------------------------------------------------
(* The audit log on its own: events are appended one call after another, one
   stored record may be altered behind the application's back (the stored
   hash left as it was), and the chain is verified. *)

MaxAuditEvents == 3
AuditEntities == {"Demande", "StockTech"}
AuditActions == {"create", "update"}

LogEvent(entity_type, entity_id, action) ==
    /\ Len(events) < MaxAuditEvents
    /\ Commit(Ok(log_event(DB, entity_type, entity_id, action)))
    /\ last' = [NoCall EXCEPT !.op = "log_event", !.aux = entity_id]
    /\ UNCHANGED <<now, loaded, txn, calls>>

Tampered(e, field) ==
    CASE field = "entity_id" -> [e EXCEPT !.entity_id = 99]
      [] field = "action" -> [e EXCEPT !.action = "forged"]
      [] field = "timestamp" -> [e EXCEPT !.timestamp = 0]
      [] field = "prev_hash" -> [e EXCEPT !.prev_hash = _calculate_hash(EventLog("Forged", 0, "forged", 0))]

TamperFields == {"entity_id", "action", "timestamp", "prev_hash"}

Tamper(k, field) ==
    /\ calls = <<>>
    /\ k \in 1..Len(events)
    /\ events' = [events EXCEPT ![k] = Tampered(@, field)]
    /\ calls' = <<[op |-> "tamper", record |-> k, field |-> field]>>
    /\ UNCHANGED <<stock, movements, threshold, alerts, reservations, paniers,
                   demandes, pins, now, last, loaded, txn>>

VerifyAuditChain ==
    /\ LET result == verify_audit_chain(DB) IN
        last' = [NoCall EXCEPT !.op = "verify_audit_chain", !.ok = result.valid,
                               !.aux = result]
    /\ UNCHANGED <<stock, movements, events, threshold, alerts, reservations,
                   paniers, demandes, pins, now, loaded, txn, calls>>

InitAudit == InitFrom(EmptyDB)

NextAudit ==
    \/ \E entity_type \in AuditEntities, action \in AuditActions :
           LogEvent(entity_type, 1, action)
    \/ \E k \in 1..MaxAuditEvents, field \in TamperFields : Tamper(k, field)
    \/ VerifyAuditChain

SpecAudit == InitAudit /\ [][NextAudit]_vars

----------------------------------------------------------------------------
(* Audit events written by operations that run at the same time on rows they
   do not share.  log_event opens (or joins) a transaction and takes no lock:
   the instance is stamped when it is built, save() reads the latest row the
   connection can see, and the INSERT becomes visible at commit. *)

AuditInFlight == Cardinality({p \in Proc : txn[p].pc # "idle"})

(* EventLog(...), audit_service.py lines 51-61 *)
BuildEvent(p, entity_type, action) ==
    /\ txn[p].pc = "idle"
    /\ Len(events) + AuditInFlight < MaxAuditEvents
    /\ now' = now + 1
    /\ txn' = [txn EXCEPT ![p] = [IdleTxn EXCEPT !.pc = "audit_read", !.op = "log_event",
                                     !.event = EventLog(entity_type, 1, action, now + 1)]]
    /\ UNCHANGED <<stock, movements, events, threshold, alerts, reservations,
                   paniers, demandes, pins, last, loaded, calls>>

(* EventLog.save, lines 253-259: read the latest committed row, hash *)
ReadLastRecord(p) ==
    /\ txn[p].pc = "audit_read"
    /\ txn' = [txn EXCEPT ![p].pc = "audit_insert",
                          ![p].event = chained(events, txn[p].event)]
    /\ UNCHANGED <<stock, movements, events, threshold, alerts, reservations,
                   paniers, demandes, pins, now, last, loaded, calls>>

(* EventLog.save, line 261, and the commit; record_hash is unique *)
InsertEvent(p) ==
    /\ txn[p].pc = "audit_insert"
    /\ LET e == txn[p].event
           res == IF \E i \in 1..Len(events) : events[i].record_hash = e.record_hash
                  THEN Fail(DB, "IntegrityError: audit_event_log.record_hash is not unique")
                  ELSE Ok([DB EXCEPT !.events = Append(@, e)])
       IN  /\ Commit(res)
           /\ last' = [NoCall EXCEPT !.op = "log_event", !.ok = res.ok, !.err = res.err]
    /\ txn' = [txn EXCEPT ![p] = IdleTxn]
    /\ UNCHANGED <<now, loaded, calls>>

InitAuditConc == InitFrom(EmptyDB)

NextAuditConc ==
    \/ \E p \in Proc, entity_type \in AuditEntities, action \in AuditActions :
           BuildEvent(p, entity_type, action)
    \/ \E p \in Proc : ReadLastRecord(p)
    \/ \E p \in Proc : InsertEvent(p)

SpecAuditConc == InitAuditConc /\ [][NextAuditConc]_vars

----------------------------------------------------------------------------
(* Requests served while the audit table may be unwritable.  Each request is
   served to completion; `audit_down` says whether the INSERT of its audit
   events fails. *)

MaxOutageEvents == 5
OutageTech == "t1"
OutageArticle == "a1"

OutageOpen == Len(events) < SeedEvents + MaxOutageEvents

During(audit_down) == [DB EXCEPT !.audit_down = audit_down]

OutageServed(op, res, qty, aux) ==
    /\ Commit(res)
    /\ last' = Call(op, res, OutageTech, OutageArticle, qty, aux)
    /\ UNCHANGED <<now, loaded, txn, calls>>

OutageIssue(q, audit_down) ==
    /\ OutageOpen
    /\ OutageServed("issue",
                    issue_stock(During(audit_down), OutageTech, OutageArticle, q, NoId, now),
                    q, 0)

OutageAddToCart(q, audit_down) ==
    /\ OutageOpen
    /\ OutageServed("add_to_cart",
                    add_to_cart(During(audit_down), OutageTech, OutageArticle, q), q, 0)

OutageSubmitCart(audit_down) ==
    /\ OutageOpen
    /\ OutageServed("submit_cart", submit_cart(During(audit_down), OutageTech), 0, 0)

OutageApproveFull(d, audit_down) ==
    /\ OutageOpen
    /\ OutageServed("approve_full",
                    approve_demand_full(During(audit_down), Snapshot(DB, d), IsAdmin), 0, d)

OutageApproveReservation(id, audit_down) ==
    /\ OutageOpen
    /\ OutageServed("approve_reservation", approve_reservation(During(audit_down), id),
                    reservations[id].qty_reserved, id)

OutageCancelReservation(id, audit_down) ==
    /\ OutageOpen
    /\ OutageServed("cancel_reservation", cancel_reservation(During(audit_down), id),
                    reservations[id].qty_reserved, id)

InitOutage == \E q \in 1..MaxQty, rq \in 1..MaxQty : InitFrom(LedgerSeed(q, rq))

NextOutage ==
    \/ \E q \in 1..MaxQty, audit_down \in BOOLEAN : OutageIssue(q, audit_down)
    \/ \E q \in 1..MaxOrderQty, audit_down \in BOOLEAN : OutageAddToCart(q, audit_down)
    \/ \E audit_down \in BOOLEAN : OutageSubmitCart(audit_down)
    \/ \E d \in DOMAIN demandes, audit_down \in BOOLEAN : OutageApproveFull(d, audit_down)
    \/ \E id \in DOMAIN reservations, audit_down \in BOOLEAN :
           OutageApproveReservation(id, audit_down)
    \/ \E id \in DOMAIN reservations, audit_down \in BOOLEAN :
           OutageCancelReservation(id, audit_down)

SpecOutage == InitOutage /\ [][NextOutage]_vars

----------------------------------------------------------------------------
(* Reservations over their whole life, next to the stock calls that move the
   quantity they are held against.  The technician holds some units of a1
   and has one PENDING reservation; one request is served at a time. *)

MaxReserveOps == 4

ReserveOpen == Len(events) < SeedEvents + MaxReserveOps

ReserveServed(op, res, t, a, qty, aux) ==
    /\ Commit(res)
    /\ last' = Call(op, res, t, a, qty, aux)
    /\ UNCHANGED <<now, loaded, txn, calls>>

ReserveIssue(t, a, q) ==
    /\ ReserveOpen
    /\ ReserveServed("issue", issue_stock(DB, t, a, q, NoId, now), t, a, q, 0)

ReserveReceive(t, a, q) ==
    /\ ReserveOpen
    /\ ReserveServed("receive", receive_stock(DB, t, a, q, NoId), t, a, q, 0)

ReserveTransfer(f, t, a, q) ==
    /\ ReserveOpen
    /\ ReserveServed("transfer", transfer_stock(DB, f, t, a, q, now), f, a, q, t)

ReserveCreate(t, a, q) ==
    /\ ReserveOpen
    /\ Len(reservations) < MaxReservations
    /\ ReserveServed("create_reservation", create_reservation(DB, t, a, q), t, a, q,
                     Len(reservations) + 1)

ReserveApprove(id) ==
    /\ ReserveOpen
    /\ ReserveServed("approve_reservation", approve_reservation(DB, id),
                     reservations[id].technician, reservations[id].article,
                     reservations[id].qty_reserved, id)

ReserveCancel(id) ==
    /\ ReserveOpen
    /\ ReserveServed("cancel_reservation", cancel_reservation(DB, id),
                     reservations[id].technician, reservations[id].article,
                     reservations[id].qty_reserved, id)

InitReserve == \E q \in 1..MaxQty, rq \in 1..MaxQty : InitFrom(LedgerSeed(q, rq))

NextReserve ==
    \/ \E q \in 1..MaxQty : ReserveIssue("t1", "a1", q)
    \/ ReserveReceive("t1", "a1", 1)
    \/ \E q \in 1..MaxQty : ReserveTransfer("t1", "t2", "a1", q)
    \/ \E t \in Tech, q \in 1..MaxQty : ReserveCreate(t, "a1", q)
    \/ \E id \in DOMAIN reservations : ReserveApprove(id)
    \/ \E id \in DOMAIN reservations : ReserveCancel(id)

SpecReserve == InitReserve /\ [][NextReserve]_vars

----------------------------------------------------------------------------
(* Concurrent handover.  The technician has one PREPARED order and a later
   order still SUBMITTED; each request fetches an order and then runs
   AdminWorkflow.handover_demand on the instance it fetched. *)

HandoverRequest(p, method, pin, signature_data) ==
    /\ loaded[p] # NoDemande
    /\ LET res == handover_demand(DB, loaded[p], method, pin, signature_data, now) IN
        /\ Commit(res)
        /\ last' = Call("handover", res, demandes[loaded[p].id].technician, "a1", 0,
                        loaded[p].id)
    /\ loaded' = [loaded EXCEPT ![p] = NoDemande]
    /\ UNCHANGED <<now, txn, calls>>

InitHandover == \E received \in 0..MaxOrderQty : InitFrom(PinSeed(received))

NextHandover ==
    \/ \E p \in Proc, d \in DOMAIN demandes : Load(p, d)
    \/ \E p \in Proc, h \in HandoverInputs :
          HandoverRequest(p, h.method, h.pin, h.signature_data)

SpecHandover == InitHandover /\ [][NextHandover]_vars

----------------------------------------------------------------------------
(* Threshold alerts.  Stock requests are served while the periodic task
   check_thresholds runs ThresholdService.check_all_thresholds, which reads
   the active thresholds first and then visits them, without a transaction;
   the clock advances between the steps. *)

MaxAlertEvents == 3
MaxAlertClock == 36
AlertTicks == {ALERT_WINDOW_HOURS \div 2}
AlertRow == <<"t1", "a1">>

AlertSeed(q) == SeedStock(SeedThreshold(EmptyDB, AlertRow[1], AlertRow[2], 1),
                          AlertRow[1], AlertRow[2], q)

AlertOpen == Len(events) < Len(AlertSeed(1).events) + MaxAlertEvents

AlertIssue(q) ==
    /\ AlertOpen
    /\ \A p \in Proc : txn[p].pc \in {"idle", "check_alert"}
    /\ LET res == issue_stock(DB, AlertRow[1], AlertRow[2], q, NoId, now) IN
       Commit(res) /\ last' = Call("issue", res, AlertRow[1], AlertRow[2], q, 0)
    /\ UNCHANGED <<now, loaded, txn, calls>>

AlertTick(dt) ==
    /\ now + dt <= MaxAlertClock
    /\ now' = now + dt
    /\ UNCHANGED <<stock, movements, events, threshold, alerts, reservations,
                   paniers, demandes, pins, last, loaded, txn, calls>>

(* check_all_thresholds, lines 82-84: Threshold.objects.filter(is_active=True) *)
CheckRead(p, r) ==
    /\ AlertOpen
    /\ txn[p].pc = "idle"
    /\ threshold[r].exists /\ threshold[r].is_active
    /\ txn' = [txn EXCEPT ![p] = [IdleTxn EXCEPT !.pc = "check_alert",
                                     !.op = "check_all_thresholds",
                                     !.tech = r[1], !.to = r[1], !.art = r[2],
                                     !.threshold = threshold[r]]]
    /\ UNCHANGED <<stock, movements, events, threshold, alerts, reservations,
                   paniers, demandes, pins, now, last, loaded, calls>>

(* check_all_thresholds, lines 87-105, and the end of the task *)
CheckAlert(p) ==
    /\ txn[p].pc = "check_alert"
    /\ LET x == txn[p]
           res == Ok(check_all_thresholds(DB, x.threshold, <<x.tech, x.art>>, now))
       IN  /\ Commit(res)
           /\ last' = Call("check_all_thresholds", res, x.tech, x.art, 0, 0)
    /\ txn' = [txn EXCEPT ![p] = IdleTxn]
    /\ UNCHANGED <<now, loaded, calls>>

InitAlert == \E q \in 1..MaxQty : InitFrom(AlertSeed(q))

NextAlert ==
    \/ \E q \in 1..MaxQty : AlertIssue(q)
    \/ \E dt \in AlertTicks : AlertTick(dt)
    \/ \E p \in Proc : CheckRead(p, AlertRow)
    \/ \E p \in Proc : CheckAlert(p)

SpecAlert == InitAlert /\ [][NextAlert]_vars

----------------------------------------------------------------------------
(* apps/core/management/commands/system_maintenance.py *)

RECURSIVE KeepRows(_, _, _)
KeepRows(rows, old, n) ==
    IF n = 0 THEN <<>>
    ELSE IF n \in old THEN KeepRows(rows, old, n - 1)
    ELSE Append(KeepRows(rows, old, n - 1), rows[n])

(* StockMovement.timestamp: the movement is created in the call that logs the
   audit event about it, at the same instant of the model's clock *)
MovementTime(db, i) ==
    LET about == {k \in DOMAIN db.events :
                     db.events[k].entity_type = "StockMovement" /\ db.events[k].entity_id = i}
    IN  IF about = {} THEN 0
        ELSE db.events[CHOOSE k \in about : \A j \in about : k <= j].timestamp

(* Command.cleanup_old_data; cutoff is timezone.now() - retention_days.  The
   two delete() calls commit on their own, and the statement after them
   raises: Demande has no attribute Status. *)
cleanup_old_data(db, cutoff, dry_run) ==
    LET old_events == {k \in DOMAIN db.events : db.events[k].timestamp < cutoff}
        old_movements == {i \in DOMAIN db.movements : MovementTime(db, i) < cutoff}
        db1 == IF old_events # {} /\ ~dry_run
               THEN [db EXCEPT !.events = KeepRows(@, old_events, Len(@))] ELSE db
        db2 == IF old_movements # {} /\ ~dry_run
               THEN [db1 EXCEPT !.movements = KeepRows(@, old_movements, Len(@))] ELSE db1
    IN  Fail(db2, "type object 'Demande' has no attribute 'Status'")

----------------------------------------------------------------------------
(* The stored history.  Stock and reservation requests are served one at a
   time; a caller may load a stored audit event, change one of its fields and
   call save() on it; and the operator runs the maintenance command once,
   after the requests. *)

ResaveFields == {"entity_id", "action"}
Cutoffs == 1..(SeedEvents + 2)

Running == last.op # "cleanup_old_data"

Resave(k, field) ==
    /\ calls = <<>>
    /\ k \in 1..Len(events)
    /\ events' = EventLog_save_existing(DB, k, Tampered(events[k], field)).events
    /\ calls' = <<[op |-> "resave", record |-> k, field |-> field]>>
    /\ UNCHANGED <<stock, movements, threshold, alerts, reservations, paniers,
                   demandes, pins, now, last, loaded, txn>>

CleanupOldData(cutoff, dry_run) ==
    /\ Running
    /\ LET res == cleanup_old_data(DB, cutoff, dry_run) IN
       Commit(res) /\ last' = Call("cleanup_old_data", res, "t1", "a1", 0, cutoff)
    /\ UNCHANGED <<now, loaded, txn, calls>>

NextHistory ==
    \/ \E q \in 1..MaxQty : Running /\ ReserveIssue("t1", "a1", q)
    \/ \E q \in 1..MaxQty : Running /\ ReserveTransfer("t1", "t2", "a1", q)
    \/ \E id \in DOMAIN reservations : Running /\ ReserveApprove(id)
    \/ \E id \in DOMAIN reservations : Running /\ ReserveCancel(id)
    \/ \E k \in 1..(SeedEvents + MaxReserveOps), field \in ResaveFields : Resave(k, field)
    \/ \E cutoff \in Cutoffs, dry_run \in BOOLEAN : CleanupOldData(cutoff, dry_run)

SpecHistory == InitReserve /\ [][NextHistory]_vars

----------------------------------------------------------------------------
(* Cart requests.  Every cart service locks the technician's DRAFT cart with
   select_for_update() before it reads it; submit_cart is run in two steps
   so that a second submit can arrive while the first holds the lock. *)

MaxCartQty == 1
MaxCartEvents == 5
MaxCartSubmits == 2
CartTech == {"t1"}

CartOpen == Len(events) < MaxCartEvents

SubmitOpen ==
    Len(calls) + Cardinality({p \in Proc : txn[p].pc # "idle"}) < MaxCartSubmits

(* select_for_update() on a cart row: no open transaction holds it *)
CartFree(cart, p) == \A o \in Proc \ {p} : txn[o].cart # cart

DraftFree(technician, p) == \A c \in DraftCarts(DB, technician) : CartFree(c, p)

AddToCart(t, a, q) ==
    /\ CartOpen
    /\ \A p \in Proc : DraftFree(t, p)
    /\ LET res == add_to_cart(DB, t, a, q) IN
       Commit(res) /\ last' = Call("add_to_cart", res, t, a, q, 0)
    /\ UNCHANGED <<now, loaded, txn, calls>>

UpdateCartLine(t, cart, a, n) ==
    /\ CartOpen
    /\ \A p \in Proc : txn[p].cart # cart
    /\ LET res == update_cart_line_quantity(DB, t, cart, a, n) IN
       Commit(res) /\ last' = Call("update_cart_line", res, t, a, n, cart)
    /\ UNCHANGED <<now, loaded, txn, calls>>

ClearCart(t) ==
    /\ CartOpen
    /\ \A p \in Proc : DraftFree(t, p)
    /\ DraftCarts(DB, t) # {}
    /\ LET res == clear_cart(DB, t) IN
       Commit(res) /\ last' = Call("clear_cart", res, t, "a1", 0, 0)
    /\ UNCHANGED <<now, loaded, txn, calls>>

(* submit_cart, lines 183-189: lock the DRAFT cart and read it *)
SubmitLock(p, t) ==
    /\ txn[p].pc = "idle"
    /\ SubmitOpen
    /\ DraftCarts(DB, t) # {}
    /\ DraftFree(t, p)
    /\ LET cart == CHOOSE c \in DraftCarts(DB, t) : TRUE IN
       txn' = [txn EXCEPT ![p] = [IdleTxn EXCEPT !.pc = "submit_write", !.op = "submit",
                                     !.tech = t, !.to = t, !.cart = cart,
                                     !.panier = paniers[cart]]]
    /\ UNCHANGED <<stock, movements, events, threshold, alerts, reservations,
                   paniers, demandes, pins, now, last, loaded, calls>>

(* submit_cart, lines 183-189, when no DRAFT cart matches *)
SubmitRefused(p, t) ==
    /\ txn[p].pc = "idle"
    /\ SubmitOpen
    /\ DraftCarts(DB, t) = {}
    /\ LET res == submit_cart(DB, t) IN
       /\ Commit(res)
       /\ calls' = Append(calls, [proc |-> p, op |-> "submit", tech |-> t, to |-> t,
                                  art |-> "a1", qty |-> 0, ok |-> res.ok, err |-> res.err])
       /\ last' = Call("submit", res, t, "a1", 0, 0)
    /\ UNCHANGED <<now, loaded, txn>>

(* submit_cart, lines 191-229: check, Panier.submit, audit, commit *)
SubmitWrite(p) ==
    /\ txn[p].pc = "submit_write"
    /\ LET x == txn[p]
           seen == [DB EXCEPT !.paniers[x.cart] = x.panier]
       IN Finished(p, atomic(DB, submit_cart_body(seen, x.tech)))
    /\ UNCHANGED <<now, loaded>>

InitCart == InitFrom(EmptyDB)

NextCart ==
    \/ \E t \in CartTech, a \in Article, q \in 0..MaxCartQty : AddToCart(t, a, q)
    \/ \E t \in CartTech, cart \in DOMAIN paniers, a \in Article, n \in 0..MaxCartQty :
           UpdateCartLine(t, cart, a, n)
    \/ \E t \in CartTech : ClearCart(t)
    \/ \E p \in Proc, t \in CartTech : SubmitLock(p, t)
    \/ \E p \in Proc, t \in CartTech : SubmitRefused(p, t)
    \/ \E p \in Proc : SubmitWrite(p)

SpecCart == InitCart /\ [][NextCart]_vars

----------------------------------------------------------------------------
(* Submission of carts whose articles may have been deactivated.  Requests are
   served one at a time; `inactive` is the set of articles whose is_active is
   False when the submit request runs. *)

SubmitCart(t, inactive) ==
    /\ CartOpen
    /\ \A p \in Proc : txn[p].pc = "idle"
    /\ LET res == submit_cart([DB EXCEPT !.inactive = inactive], t) IN
       Commit(res) /\ last' = Call("submit_cart", res, t, "a1", 0, 0)
    /\ UNCHANGED <<now, loaded, txn, calls>>

NextSubmit ==
    \/ \E t \in CartTech, a \in Article, q \in 0..MaxCartQty : AddToCart(t, a, q)
    \/ \E t \in CartTech, cart \in DOMAIN paniers, a \in Article, n \in 0..MaxCartQty :
           UpdateCartLine(t, cart, a, n)
    \/ \E t \in CartTech : ClearCart(t)
    \/ \E t \in CartTech, inactive \in SUBSET Article : SubmitCart(t, inactive)

SpecSubmit == InitCart /\ [][NextSubmit]_vars

----------------------------------------------------------------------------
(* add_to_cart calls of the same technician at the same time.  get_or_create
   looks the DRAFT cart up (locking it when there is one), INSERTs one when it
   found none, and the call writes its line and commits.  The technician has
   submitted one cart before. *)

MaxDraftCalls == 4

DraftOpen ==
    Len(calls) + Cardinality({p \in Proc : txn[p].pc # "idle"}) < MaxDraftCalls

(* the DRAFT rows INSERTed by transactions still open *)
UncommittedDrafts(p) ==
    {Panier(txn[o].tech) : o \in {x \in Proc \ {p} : txn[x].pc = "cart_write"
                                                      /\ txn[x].cart = NoId}}

CommittedCarts == {paniers[i] : i \in 1..Len(paniers)}

(* get_or_create, the lookup: select_for_update().get(technician, status=DRAFT) *)
DraftLookup(p, t, a, q) ==
    /\ txn[p].pc = "idle"
    /\ DraftOpen
    /\ DraftFree(t, p)
    /\ txn' = [txn EXCEPT ![p] =
                 [IdleTxn EXCEPT !.op = "add_to_cart", !.tech = t, !.to = t, !.art = a,
                                 !.qty = q,
                                 !.pc = IF DraftCarts(DB, t) = {} THEN "cart_insert"
                                        ELSE "cart_write",
                                 !.cart = IF DraftCarts(DB, t) = {} THEN NoId
                                          ELSE CHOOSE c \in DraftCarts(DB, t) : TRUE]]
    /\ UNCHANGED <<stock, movements, events, threshold, alerts, reservations,
                   paniers, demandes, pins, now, last, loaded, calls>>

(* get_or_create, the INSERT: it waits for an open transaction that holds a
   colliding row; on IntegrityError get_or_create fetches the existing cart *)
DraftInsert(p) ==
    /\ txn[p].pc = "cart_insert"
    /\ ~unique_draft_cart_per_technician(UncommittedDrafts(p), txn[p].tech)
    /\ IF unique_draft_cart_per_technician(CommittedCarts, txn[p].tech)
       THEN /\ DraftFree(txn[p].tech, p)
            /\ txn' = [txn EXCEPT ![p].pc = "cart_write",
                                  ![p].cart = CHOOSE c \in DraftCarts(DB, txn[p].tech) : TRUE]
       ELSE txn' = [txn EXCEPT ![p].pc = "cart_write"]
    /\ UNCHANGED <<stock, movements, events, threshold, alerts, reservations,
                   paniers, demandes, pins, now, last, loaded, calls>>

(* the rest of add_to_cart and the commit *)
DraftWrite(p) ==
    /\ txn[p].pc = "cart_write"
    /\ LET x == txn[p]
           created == [DB EXCEPT !.paniers = Append(@, Panier(x.tech))]
           db0 == IF x.cart = NoId
                  THEN log_event(created, "Panier", Len(created.paniers), "create_cart")
                  ELSE DB
           cart == IF x.cart = NoId THEN Len(created.paniers) ELSE x.cart
       IN  Finished(p, atomic(DB, add_to_cart_line(db0, cart, x.art, x.qty)))
    /\ UNCHANGED <<now, loaded>>

(* add_to_cart, lines 64-65: the article of the request is inactive and the
   call raises before it reads a cart *)
DraftInactive(p, t, a, q) ==
    /\ txn[p].pc = "idle"
    /\ DraftOpen
    /\ LET res == add_to_cart([DB EXCEPT !.inactive = {a}], t, a, q) IN
       /\ Commit(res)
       /\ calls' = Append(calls, [proc |-> p, op |-> "add_to_cart", tech |-> t, to |-> t,
                                  art |-> a, qty |-> q, ok |-> res.ok, err |-> res.err])
       /\ last' = Call("add_to_cart", res, t, a, q, 0)
    /\ UNCHANGED <<now, loaded, txn>>

DraftSubmit(t) ==
    /\ DraftOpen
    /\ \A p \in Proc : DraftFree(t, p)
    /\ LET res == submit_cart(DB, t) IN
       /\ Commit(res)
       /\ calls' = Append(calls, [proc |-> "p1", op |-> "submit", tech |-> t, to |-> t,
                                  art |-> "a1", qty |-> 0, ok |-> res.ok, err |-> res.err])
       /\ last' = Call("submit", res, t, "a1", 0, 0)
    /\ UNCHANGED <<now, loaded, txn>>

InitDraft == InitFrom(OrderSeed(EmptyDB, 1, 0))

NextDraft ==
    \/ \E p \in Proc, t \in Tech, a \in Article : DraftLookup(p, t, a, 1)
    \/ \E p \in Proc : DraftInsert(p)
    \/ \E p \in Proc : DraftWrite(p)
    \/ \E t \in Tech : DraftSubmit(t)

SpecDraft == InitDraft /\ [][NextDraft]_vars

----------------------------------------------------------------------------
(* add_to_cart calls of one technician for quantities of their choice, on
   active and on inactive articles, from an empty database. *)

MaxLineCalls == 3
MaxLineQty == 2

LineOpen ==
    Len(calls) + Cardinality({p \in Proc : txn[p].pc # "idle"}) < MaxLineCalls

InitLine == InitFrom(EmptyDB)

NextLine ==
    \/ \E p \in Proc, t \in CartTech, a \in Article, q \in 1..MaxLineQty :
           LineOpen /\ DraftLookup(p, t, a, q)
    \/ \E p \in Proc, t \in CartTech, a \in Article, q \in 1..MaxLineQty :
           LineOpen /\ DraftInactive(p, t, a, q)
    \/ \E p \in Proc : DraftInsert(p)
    \/ \E p \in Proc : DraftWrite(p)
    \/ \E t \in CartTech : LineOpen /\ DraftSubmit(t)

SpecLine == InitLine /\ [][NextLine]_vars

----------------------------------------------------------------------------
(* Properties of the stock ledger, checked under Spec *)

Avail(st, r) == st[r].quantity - st[r].reserved_qty
LastRow == <<last.tech, last.art>>
Others == <<threshold, alerts, reservations, paniers, demandes, pins>>
LastMovement == movements[Len(movements)]

(* C1: every StockLevel row satisfies 0 <= reserved_qty <= quantity in every
   reachable state. *)
C1_ReservedWithinQuantity ==
    \A r \in Rows : 0 <= stock[r].reserved_qty /\ stock[r].reserved_qty <= stock[r].quantity

(* C6: issue succeeds exactly when 0 < qty <= available; a successful issue
   takes qty off quantity and min(qty, reserved_qty) off reserved_qty and
   appends exactly one movement (delta = -qty, ISSUE, balance_after = the new
   quantity). *)
C6_IssueEffect ==
    [][last'.op = "issue" /\ last'.qty > 0 =>
        LET r == <<last'.tech, last'.art>>
            q == last'.qty
        IN  /\ last'.ok <=> q <= Avail(stock, r)
            /\ last'.ok =>
                /\ stock'[r].quantity = stock[r].quantity - q
                /\ stock'[r].reserved_qty =
                       stock[r].reserved_qty - Min(q, stock[r].reserved_qty)
                /\ \A o \in Rows \ {r} : stock'[o] = stock[o]
                /\ movements' = Append(movements,
                       [technician |-> r[1], article |-> r[2], delta |-> -q,
                        reason |-> "ISSUE", linked_demande |-> NoId,
                        balance_after |-> stock'[r].quantity])
    ]_vars

(* C6 witness: an issue of exactly the available quantity has succeeded. *)
C6_Witness ==
    /\ last.op = "issue" /\ last.ok
    /\ stock[LastRow].quantity = 0
    /\ LastMovement.delta = -last.qty /\ LastMovement.reason = "ISSUE"

(* C7: issue of qty > available fails with the insufficient-stock error and
   changes nothing: no quantity, no reservation, no movement, no audit event,
   and no row created by the failed call. *)
C7_IssueInsufficient ==
    [][(last'.op = "issue" /\ last'.qty > 0
            /\ last'.qty > Avail(stock, <<last'.tech, last'.art>>)) =>
        /\ ~last'.ok /\ last'.err = "Insufficient stock"
        /\ stock' = stock
        /\ movements' = movements
        /\ events' = events
        /\ UNCHANGED Others
    ]_vars

(* C7 witness: an issue has failed for lack of stock on a technician who has
   no row for the article, and none exists afterwards. *)
C7_Witness ==
    /\ last.op = "issue" /\ ~last.ok /\ last.err = "Insufficient stock"
    /\ ~stock[LastRow].exists

(* C8: transfer fails and changes nothing when from = to or qty > the
   source's available quantity; otherwise one step moves qty from the source
   to the destination and appends the two TRANSFER movements. *)
C8_TransferEffect ==
    [][last'.op = "transfer" /\ last'.qty > 0 =>
        LET rf == <<last'.tech, last'.art>>
            rt == <<last'.aux, last'.art>>
            q == last'.qty
        IN  IF last'.tech = last'.aux \/ q > Avail(stock, rf)
            THEN /\ ~last'.ok
                 /\ stock' = stock /\ movements' = movements /\ events' = events
                 /\ UNCHANGED Others
            ELSE /\ last'.ok
                 /\ stock'[rf].quantity = stock[rf].quantity - q
                 /\ stock'[rt].quantity = stock[rt].quantity + q
                 /\ stock'[rf].quantity + stock'[rt].quantity
                        = stock[rf].quantity + stock[rt].quantity
                 /\ \A o \in Rows \ {rf, rt} : stock'[o] = stock[o]
                 /\ movements' = movements \o
                      << [technician |-> rf[1], article |-> rf[2], delta |-> -q,
                          reason |-> "TRANSFER", linked_demande |-> NoId,
                          balance_after |-> stock'[rf].quantity],
                         [technician |-> rt[1], article |-> rt[2], delta |-> q,
                          reason |-> "TRANSFER", linked_demande |-> NoId,
                          balance_after |-> stock'[rt].quantity] >>
    ]_vars

(* C8 witness: a transfer has succeeded while part of the source's stock was
   reserved, so the availability check decided it. *)
C8_Witness ==
    /\ last.op = "transfer" /\ last.ok
    /\ Len(movements) >= 2
    /\ LastMovement.reason = "TRANSFER" /\ LastMovement.delta = last.qty
    /\ stock[<<last.aux, last.art>>].quantity = last.qty
    /\ \E id \in DOMAIN reservations : reservations[id].status = "APPROVED"


----------------------------------------------------------------------------
(* Properties of concurrent stock calls, checked under SpecConc *)

RECURSIVE SumDelta(_, _, _)
SumDelta(ms, r, n) ==
    IF n = 0 THEN 0
    ELSE SumDelta(ms, r, n - 1) +
         (IF <<ms[n].technician, ms[n].article>> = r THEN ms[n].delta ELSE 0)

RECURSIVE SumIssued(_, _, _)
SumIssued(cs, r, n) ==
    IF n = 0 THEN 0
    ELSE SumIssued(cs, r, n - 1) +
         (IF cs[n].op = "issue" /\ cs[n].ok /\ <<cs[n].tech, cs[n].art>> = r
          THEN cs[n].qty ELSE 0)

RECURSIVE SumTransferred(_, _, _)
SumTransferred(cs, r, n) ==
    IF n = 0 THEN 0
    ELSE SumTransferred(cs, r, n - 1) +
         (IF cs[n].op = "transfer" /\ cs[n].ok
          THEN (IF <<cs[n].to, cs[n].art>> = r THEN cs[n].qty ELSE 0) -
               (IF <<cs[n].tech, cs[n].art>> = r THEN cs[n].qty ELSE 0)
          ELSE 0)

Received(r) ==
    LET n == Cardinality({i \in 1..Len(movements) : movements[i].reason = "RECEIPT"})
    IN SumDelta(SubSeq(movements, 1, n), r, n)

IssueMovements(r) ==
    {i \in 1..Len(movements) :
        movements[i].reason = "ISSUE" /\ <<movements[i].technician, movements[i].article>> = r}

IssuesOk(r) ==
    {i \in 1..Len(calls) :
        calls[i].op = "issue" /\ calls[i].ok /\ <<calls[i].tech, calls[i].art>> = r}

(* C5: concurrent issue calls on one (technician, article) row are serialized
   by the row lock.  No update is lost: the quantity of every row equals the
   quantity it was stocked with, minus the quantities of the issue calls that
   succeeded on it (and adjusted by the transfers that succeeded), there is
   exactly one ISSUE movement per successful issue call, and the quantity is
   never below 0. *)
C5_IssuesSerialized ==
    \A r \in Rows :
        /\ stock[r].quantity >= 0
        /\ stock[r].quantity =
               Received(r) - SumIssued(calls, r, Len(calls))
                           + SumTransferred(calls, r, Len(calls))
        /\ Cardinality(IssueMovements(r)) = Cardinality(IssuesOk(r))

(* two issue calls by different connections succeeded on the same row, the
   second having waited for the first, and emptied it *)
C5_Witness ==
    /\ Len(calls) = 2
    /\ calls[1].proc # calls[2].proc
    /\ \A i \in 1..2 : calls[i].op = "issue" /\ calls[i].ok /\ calls[i].qty = 1
                       /\ calls[i].tech = "t1" /\ calls[i].art = "a1"
    /\ stock[<<"t1", "a1">>].quantity = 0
    /\ Received(<<"t1", "a1">>) = 2

(* C9: two concurrent transfers of the same article in opposite directions
   never deadlock: no state has two open transfers each holding the row the
   other one is waiting to lock. *)
C9_NoCircularWait ==
    ~ \E p \in Proc, o \in Proc :
        /\ p # o
        /\ txn[p].pc = "transfer_lock_to"
        /\ txn[o].pc = "transfer_lock_to"
        /\ <<txn[p].to, txn[p].art>> \in txn[o].held
        /\ <<txn[o].to, txn[o].art>> \in txn[p].held


----------------------------------------------------------------------------
(* Properties of the order workflow, checked under SpecOrder *)

OrderLines == {<<d, a>> \in (DOMAIN demandes) \X Article : demandes[d].lines[a].exists}

(* C2: in every reachable state every order line satisfies
   0 <= qty_approved <= qty_requested and 0 <= qty_prepared <= qty_approved,
   whatever sequence or interleaving of approve_full, approve_partial, refuse
   and prepare requests is served. *)
C2_LineQuantities ==
    \A x \in OrderLines :
        LET line == demandes[x[1]].lines[x[2]] IN
        /\ 0 <= line.qty_approved /\ line.qty_approved <= line.qty_requested
        /\ 0 <= line.qty_prepared /\ line.qty_prepared <= line.qty_approved

StatusEdges ==
    {<<"SUBMITTED", "APPROVED">>, <<"SUBMITTED", "PARTIAL">>, <<"SUBMITTED", "REFUSED">>,
     <<"APPROVED", "PREPARED">>, <<"PARTIAL", "PREPARED">>,
     <<"PREPARED", "HANDED_OVER">>, <<"HANDED_OVER", "CLOSED">>}

(* C3: the status of an order only changes along the edges of StatusEdges
   (a handover request, which writes HANDED_OVER and then CLOSED before it
   commits, takes the two last edges in one step), a new order starts in
   SUBMITTED, and a REFUSED or CLOSED order keeps its status, under any
   sequence or interleaving of the workflow requests. *)
C3_StatusEdges ==
    [][\A d \in DOMAIN demandes' :
          IF d \in DOMAIN demandes
          THEN \/ demandes'[d].status = demandes[d].status
               \/ <<demandes[d].status, demandes'[d].status>> \in StatusEdges
               \/ /\ last'.op = "handover"
                  /\ demandes[d].status = "PREPARED"
                  /\ demandes'[d].status = "CLOSED"
          ELSE demandes'[d].status = "SUBMITTED"]_vars


(* C10: a prepare request on an order that is APPROVED or PARTIAL with some
   approved quantity never fails for lack of stock: every line with
   qty_approved > 0 gets qty_prepared = min(qty_approved, available) with the
   available quantity of the technician's own row floored at 0, the row's
   reserved_qty grows by exactly qty_prepared, its quantity is unchanged, the
   other lines and rows are untouched, and the order becomes PREPARED. *)
C10_PrepareEffect ==
    [][\A p \in Proc :
          (/\ last'.op = "prepare"
           /\ loaded[p] # NoDemande /\ loaded'[p] = NoDemande
           /\ loaded[p].status = demandes[loaded[p].id].status
           /\ loaded[p].status \in {"APPROVED", "PARTIAL"}
           /\ \E a \in Article : demandes[loaded[p].id].lines[a].qty_approved > 0)
          =>
          LET d == loaded[p].id
              t == demandes[d].technician
          IN /\ last'.ok
             /\ demandes'[d].status = "PREPARED"
             /\ \A a \in Article :
                 LET line == demandes[d].lines[a]
                     line2 == demandes'[d].lines[a]
                     avail == Avail(stock, <<t, a>>)
                     floored == IF avail > 0 THEN avail ELSE 0
                     expect == IF line.qty_approved < floored THEN line.qty_approved
                               ELSE floored
                 IN IF line.qty_approved > 0
                    THEN /\ line2 = [line EXCEPT !.qty_prepared = expect]
                         /\ stock'[<<t, a>>].reserved_qty = stock[<<t, a>>].reserved_qty + expect
                         /\ stock'[<<t, a>>].quantity = stock[<<t, a>>].quantity
                    ELSE line2 = line /\ stock'[<<t, a>>] = stock[<<t, a>>]]_vars

(* a prepare request has just reserved less than was approved: 1 of 2 *)
C10_Witness ==
    /\ last.op = "prepare" /\ last.ok
    /\ demandes[1].status = "PREPARED"
    /\ demandes[1].lines["a1"].qty_approved = 2
    /\ demandes[1].lines["a1"].qty_prepared = 1
    /\ stock[<<"t1", "a1">>].reserved_qty >= 1

----------------------------------------------------------------------------
(* Properties of cart submission, checked under SpecCart *)

OrdersOf(cart) == {d \in DOMAIN demandes : demandes[d].panier = cart}

(* C4: cart submission is atomic and one-to-one.  In every committed state a
   cart is SUBMITTED if and only if exactly one order references it, no order
   references a cart that is still DRAFT, and no cart has more than one
   order, also when submit is called twice or by two connections at once. *)
C4_SubmitOneToOne ==
    /\ \A c \in DOMAIN paniers :
          /\ (paniers[c].status = "SUBMITTED") <=> (Cardinality(OrdersOf(c)) = 1)
          /\ Cardinality(OrdersOf(c)) <= 1
    /\ \A d \in DOMAIN demandes :
          /\ demandes[d].panier \in DOMAIN paniers
          /\ paniers[demandes[d].panier].status # "DRAFT"

(* two connections submitted the same technician's cart: one created the
   order, the other found no active cart *)
C4_Witness ==
    /\ Len(calls) = 2
    /\ calls[1].proc # calls[2].proc
    /\ calls[1].op = "submit" /\ calls[1].ok
    /\ calls[2].op = "submit" /\ ~calls[2].ok
    /\ Len(paniers) = 1 /\ paniers[1].status = "SUBMITTED"
    /\ Cardinality(OrdersOf(1)) = 1


----------------------------------------------------------------------------
(* Properties of the handover, checked under SpecOrder *)

ReceiptsFor(ms, d, t, a) ==
    {i \in 1..Len(ms) :
        /\ ms[i].reason = "RECEIPT" /\ ms[i].linked_demande = d
        /\ ms[i].technician = t /\ ms[i].article = a}

(* the handover request that has just been served on order d, which was
   PREPARED in the database and in the instance the view fetched *)
HandedOver(d) ==
    /\ last'.op = "handover" /\ last'.ok /\ last'.aux = d
    /\ demandes[d].status = "PREPARED"
    /\ \E p \in Proc : loaded[p] = [id |-> d, status |-> "PREPARED"] /\ loaded'[p] = NoDemande

(* C11: a successful handover of a PREPARED order adds, for every line with
   qty_prepared > 0, exactly qty_prepared to the technician's quantity of the
   article and appends one RECEIPT movement of that quantity linked to the
   order, leaves the other rows alone, records the handover method, and
   leaves the order CLOSED. *)
C11_HandoverEffect ==
    [][\A d \in DOMAIN demandes :
          HandedOver(d) =>
          LET t == demandes[d].technician IN
          /\ demandes'[d].status = "CLOSED"
          /\ demandes'[d].handover_method \in {"PIN", "SIGNATURE"}
          /\ demandes'[d].lines = demandes[d].lines
          /\ \A a \in Article :
              LET line == demandes[d].lines[a]
                  new == ReceiptsFor(movements', d, t, a) \ ReceiptsFor(movements, d, t, a)
              IN IF line.qty_prepared > 0
                 THEN /\ stock'[<<t, a>>].quantity = stock[<<t, a>>].quantity + line.qty_prepared
                      /\ stock'[<<t, a>>].reserved_qty = stock[<<t, a>>].reserved_qty
                      /\ Cardinality(new) = 1
                      /\ \A i \in new : movements'[i].delta = line.qty_prepared
                 ELSE stock'[<<t, a>>] = stock[<<t, a>>] /\ new = {}
          /\ Len(movements') = Len(movements) +
                 Cardinality({a \in Article : demandes[d].lines[a].qty_prepared > 0})]_vars

(* a signature handover has just delivered a prepared line and closed the order *)
C11_Witness ==
    /\ last.op = "handover" /\ last.ok
    /\ demandes[1].status = "CLOSED"
    /\ demandes[1].handover_method = "SIGNATURE"
    /\ demandes[1].lines["a1"].qty_prepared = 1
    /\ ReceiptsFor(movements, 1, "t1", "a1") # {}

(* C12: after a successful handover call on a PREPARED order the status of
   the order is HANDED_OVER. *)
C12_HandedOverAfterHandover ==
    [][\A d \in DOMAIN demandes :
          HandedOver(d) => demandes'[d].status = "HANDED_OVER"]_vars

DemandeActions(d) ==
    SelectSeq(events, LAMBDA e : e.entity_type = "Demande" /\ e.entity_id = d)

RECURSIVE ActionsOf(_, _)
ActionsOf(es, n) == IF n = 0 THEN <<>> ELSE Append(ActionsOf(es, n - 1), es[n].action)

(* C13: when an order has been approved in full, prepared and handed over,
   the technician's quantity of every ordered article has grown by the
   approved quantity, through one RECEIPT movement per line. *)
C13_FullWorkflowDelivers ==
    \A d \in DOMAIN demandes :
        ActionsOf(DemandeActions(d), Len(DemandeActions(d))) =
            <<"create_demand", "approve_demand_full", "prepare_demand",
              "handover_demand", "close_demand">>
        => \A a \in Article :
               LET line == demandes[d].lines[a]
                   rs == ReceiptsFor(movements, d, demandes[d].technician, a)
               IN line.exists =>
                    /\ Cardinality(rs) = 1
                    /\ \A i \in rs : movements[i].delta = line.qty_approved

----------------------------------------------------------------------------
(* Properties of the partial approval, checked under SpecPrepare *)

ValidApprovals(d, line_approvals) ==
    \A i \in 1..Len(line_approvals) :
        /\ line_approvals[i].line_id \in Article
        /\ demandes[d].lines[line_approvals[i].line_id].exists
        /\ line_approvals[i].qty_approved >= 0
        /\ line_approvals[i].qty_approved
               <= demandes[d].lines[line_approvals[i].line_id].qty_requested

RECURSIVE ApprovedTotal(_, _)
ApprovedTotal(lines, S) ==
    IF S = {} THEN 0
    ELSE LET a == CHOOSE x \in S : TRUE
         IN  (IF lines[a].exists THEN lines[a].qty_approved ELSE 0)
                 + ApprovedTotal(lines, S \ {a})

AllLinesApproved(lines) ==
    \A a \in Article : lines[a].exists => lines[a].qty_approved = lines[a].qty_requested

(* C14: approve_partial on a SUBMITTED order, every given qty_approved within
   0..qty_requested of its line, succeeds, stores the given quantities on
   those lines and leaves the order APPROVED when every line is approved in
   full, PARTIAL when something but not everything is approved, and REFUSED
   when the approved total is 0. *)
C14_PartialApprovalStatus ==
    [][\A p \in PrepareProc, la \in LineApprovals :
          (/\ loaded[p] # NoDemande
           /\ demandes[loaded[p].id].status = "SUBMITTED"
           /\ ValidApprovals(loaded[p].id, la)
           /\ ApprovePartial(p, la)) =>
          LET d == loaded[p].id
              lines == demandes'[d].lines
          IN  /\ last'.ok
              /\ \A i \in 1..Len(la) : lines[la[i].line_id].qty_approved = la[i].qty_approved
              /\ \A a \in Article : lines[a].qty_requested = demandes[d].lines[a].qty_requested
              /\ AllLinesApproved(lines) => demandes'[d].status = "APPROVED"
              /\ (ApprovedTotal(lines, Article) > 0 /\ ~AllLinesApproved(lines))
                     => demandes'[d].status = "PARTIAL"
              /\ ApprovedTotal(lines, Article) = 0 => demandes'[d].status = "REFUSED"]_vars

(* 1 of 2 approved on one line and 0 of 1 on the other: PARTIAL *)
C14_Witness ==
    /\ last.op = "approve_partial" /\ last.ok
    /\ demandes[1].status = "PARTIAL"
    /\ demandes[1].lines["a1"].qty_requested = 2 /\ demandes[1].lines["a1"].qty_approved = 1
    /\ demandes[1].lines["a2"].qty_requested = 1 /\ demandes[1].lines["a2"].qty_approved = 0
    /\ events[Len(events)].action = "approve_demand_partial"

----------------------------------------------------------------------------
(* Properties of the PIN handover, checked under SpecPin *)

(* the PIN records that authorize handing order d over with `pin` now *)
GoodPins(d, pin) ==
    {i \in 1..Len(pins) :
        /\ pins[i].demande_id = d
        /\ pins[i].user = demandes[d].technician
        /\ pins[i].pin_hash = pbkdf2_hmac(pin)
        /\ ~pins[i].is_used
        /\ now <= pins[i].expires_at}

(* the refusals of a PIN handover: InvalidPin (no PIN or no matching record)
   and ExpiredPin *)
PinRefusals == {"PIN is required for PIN handover", "Invalid PIN", "PIN has expired"}

(* C15: a PIN handover of a PREPARED order succeeds only if a PIN record of
   that order and technician matches the presented PIN, unused and unexpired,
   and then marks exactly that record used; without such a record it fails
   with "Invalid PIN" or "PIN has expired"; a failed handover leaves the
   order PREPARED and stock and movements as they were; a used PIN record is
   never unused again, so it authorizes at most one handover. *)
C15_PinHandover ==
    [][/\ \A i \in 1..Len(pins) : pins[i].is_used => pins'[i].is_used
       /\ \A p \in Proc, pin \in PresentedPins :
             (/\ loaded[p] # NoDemande
              /\ demandes[loaded[p].id].status = "PREPARED"
              /\ HandoverPin(p, pin)) =>
             LET d == loaded[p].id IN
             /\ last'.ok =>
                   /\ GoodPins(d, pin) # {}
                   /\ \E i \in GoodPins(d, pin) :
                         /\ pins'[i].is_used
                         /\ \A j \in 1..Len(pins) : j # i => pins'[j] = pins[j]
                   /\ demandes'[d].status # "PREPARED"
             /\ GoodPins(d, pin) = {} =>
                   /\ ~last'.ok
                   /\ last'.err \in PinRefusals
             /\ ~last'.ok =>
                   /\ demandes' = demandes
                   /\ stock' = stock
                   /\ movements' = movements
                   /\ pins' = pins]_vars

----------------------------------------------------------------------------
(* Properties of the audit chain, checked under SpecAudit *)

NoErrors == <<>>

(* C16: N events appended one after another to an empty log: the first has an
   empty prev_hash, each later one carries the record_hash of the event
   appended just before it, and verify_audit_chain over the full history
   reports valid, N verified records and no errors. *)
C16_SequentialChain ==
    calls = <<>> =>
        /\ Len(events) > 0 => events[1].prev_hash = EmptyHash
        /\ \A i \in 2..Len(events) : events[i].prev_hash = events[i - 1].record_hash
        /\ \A i \in 1..Len(events) : events[i].record_hash # EmptyHash
        /\ verify_audit_chain(DB) = [valid |-> TRUE, total_records |-> Len(events),
                                     verified_records |-> Len(events), errors |-> NoErrors]

C16_Witness ==
    /\ calls = <<>>
    /\ Len(events) = MaxAuditEvents
    /\ events[MaxAuditEvents].prev_hash = events[MaxAuditEvents - 1].record_hash
    /\ last.op = "verify_audit_chain" /\ last.ok
    /\ last.aux.verified_records = MaxAuditEvents

ErrorsAbout(result, r) == {i \in 1..Len(result.errors) : result.errors[i].record = r}

(* C17, as stated: once the stored fields of one record were changed and its
   stored hash left alone, verify_hash fails for that record and the chain
   verification reports a failure for every record after it. *)
C17_SuccessorsFail ==
    calls # <<>> =>
        LET k == calls[1].record IN
        /\ ~verify_hash(events[k])
        /\ \A j \in 1..Len(events) :
               events[j].timestamp > events[k].timestamp =>
                   ErrorsAbout(verify_audit_chain(DB), j) # {}

(* C17, amended: verify_hash fails for the changed record, verify_audit_chain
   reports invalid with that record's hash mismatch and N-1 verified records;
   a change to a field other than prev_hash and timestamp yields no other
   error, the later records still pass; verification changes no record. *)
C17_TamperReported ==
    /\ [](calls # <<>> =>
            LET k == calls[1].record
                result == verify_audit_chain(DB)
            IN  /\ ~verify_hash(events[k])
                /\ ~result.valid
                /\ result.total_records = Len(events)
                /\ result.verified_records = Len(events) - 1
                /\ \E i \in ErrorsAbout(result, k) : result.errors[i].error = "Hash mismatch"
                /\ calls[1].field \in {"entity_id", "action"} =>
                       /\ Len(result.errors) = 1
                       /\ \A j \in 1..Len(events) : j # k => verify_chain(DB, events[j]))
    /\ [][(last'.op = "verify_audit_chain" /\ last' # last) =>
              (events' = events /\ last'.aux = verify_audit_chain(DB))]_vars

C17_Witness ==
    /\ calls # <<>> /\ calls[1].record = 1 /\ calls[1].field = "action"
    /\ Len(events) = MaxAuditEvents
    /\ last.op = "verify_audit_chain" /\ ~last.ok
    /\ last.aux.verified_records = MaxAuditEvents - 1

----------------------------------------------------------------------------
(* Property of concurrent audit writes, checked under SpecAuditConc *)

(* C18: with events appended by operations running at the same time, the
   committed log is one chain in timestamp order: no two events have the same
   prev_hash, every event carries the record_hash of the event before it in
   timestamp order (the first an empty one), and verify_audit_chain reports
   valid. *)
C18_ConcurrentChain ==
    LET query == order_by_timestamp(events, 1..Len(events)) IN
    /\ \A i, j \in 1..Len(events) : i # j => events[i].prev_hash # events[j].prev_hash
    /\ \A i \in 1..Len(query) :
           events[query[i]].prev_hash =
               IF i = 1 THEN EmptyHash ELSE events[query[i - 1]].record_hash
    /\ verify_audit_chain(DB).valid

----------------------------------------------------------------------------
(* Property of the audit trail under write failures, checked under SpecOutage *)

Business == <<stock, movements, reservations, paniers, demandes>>

(* C19: no request changes carts, stock, movements, orders or reservations
   without committing an audit event in the same step, and a request whose
   audit write failed leaves all of them, and the audit log, as they were. *)
C19_NoMutationWithoutAudit ==
    [][/\ Business' # Business => Len(events') > Len(events)
       /\ last'.err = AuditError => (Business' = Business /\ events' = events)]_vars

----------------------------------------------------------------------------
(* Property of cart creation, checked under SpecDraft *)

DraftsOf(t) == {i \in 1..Len(paniers) : paniers[i].technician = t /\ paniers[i].status = "DRAFT"}
SubmittedOf(t) ==
    {i \in 1..Len(paniers) : paniers[i].technician = t /\ paniers[i].status = "SUBMITTED"}

(* C20: a technician never has two DRAFT carts, also when add_to_cart calls
   of the same technician overlap: the call that finds a DRAFT cart committed
   since its lookup creates none (its INSERT is refused); SUBMITTED carts
   may be as many as were submitted. *)
C20_OneDraftCart ==
    [][/\ \A t \in Tech : Cardinality(DraftsOf(t))' <= 1
       /\ \A p \in Proc :
             (txn[p].pc = "cart_insert" /\ txn'[p].pc = "cart_write"
              /\ DraftsOf(txn[p].tech) # {}) => txn'[p].cart \in DraftsOf(txn[p].tech)
       /\ \A t \in Tech : SubmittedOf(t) \subseteq SubmittedOf(t)']_vars

(* two SUBMITTED carts and the DRAFT cart of t1, which the other call
   committed after this one had looked for it and found none *)
C20_Witness ==
    /\ Cardinality(SubmittedOf("t1")) = 2
    /\ Cardinality(DraftsOf("t1")) = 1
    /\ \E p \in Proc : txn[p].pc = "cart_insert" /\ txn[p].tech = "t1"

----------------------------------------------------------------------------
(* Properties of the submitted order, checked under SpecCart *)

(* C21: a successful submit of a DRAFT cart produces one new order in
   SUBMITTED for the cart's technician with exactly one line per cart line,
   each with the cart line's article and quantity as qty_requested and with
   qty_approved = qty_prepared = 0, and the cart becomes SUBMITTED with its
   lines untouched. *)
C21_SubmitCopiesLines ==
    [][\A p \in Proc :
          (txn[p].pc = "submit_write" /\ SubmitWrite(p) /\ last'.ok) =>
             LET cart == txn[p].cart
                 c == paniers[cart]
                 d == Len(demandes')
             IN  /\ c.status = "DRAFT"
                 /\ d = Len(demandes) + 1
                 /\ \A i \in DOMAIN demandes : demandes'[i] = demandes[i]
                 /\ demandes'[d].technician = c.technician
                 /\ demandes'[d].status = "SUBMITTED"
                 /\ demandes'[d].panier = cart
                 /\ \A a \in Article :
                       /\ demandes'[d].lines[a].exists <=> (c.lines[a] > 0)
                       /\ demandes'[d].lines[a].qty_requested = c.lines[a]
                       /\ demandes'[d].lines[a].qty_approved = 0
                       /\ demandes'[d].lines[a].qty_prepared = 0
                 /\ paniers'[cart].status = "SUBMITTED"
                 /\ paniers'[cart].lines = c.lines]_vars

(* a cart with 2 of a1 and 1 of a2 was submitted: the order has two lines,
   asking 2 and 1 *)
C21_Witness ==
    /\ last.op = "submit" /\ last.ok
    /\ Len(paniers) = 1 /\ paniers[1].status = "SUBMITTED"
    /\ paniers[1].lines["a1"] = 2 /\ paniers[1].lines["a2"] = 1
    /\ Len(demandes) = 1
    /\ demandes[1].lines["a1"].exists /\ demandes[1].lines["a1"].qty_requested = 2
    /\ demandes[1].lines["a2"].exists /\ demandes[1].lines["a2"].qty_requested = 1

----------------------------------------------------------------------------
(* Properties of cart lines, checked under SpecLine *)

RECURSIVE LineTotal(_, _, _, _)
LineTotal(ps, t, a, n) ==
    IF n = 0 THEN 0
    ELSE LineTotal(ps, t, a, n - 1) + (IF ps[n].technician = t THEN ps[n].lines[a] ELSE 0)

RECURSIVE AddedTotal(_, _, _, _)
AddedTotal(cs, t, a, n) ==
    IF n = 0 THEN 0
    ELSE AddedTotal(cs, t, a, n - 1)
         + (IF cs[n].op = "add_to_cart" /\ cs[n].ok /\ cs[n].tech = t /\ cs[n].art = a
            THEN cs[n].qty ELSE 0)

(* C22: add_to_cart on the DRAFT cart creates the line when the cart has none
   for the article and otherwise adds the quantity to the existing line; calls
   that overlap all succeed and no quantity is lost, so the lines of a
   technician's carts add up to the quantities of the calls made; a call for
   an inactive article fails and changes nothing. *)
C22_AddLine ==
    /\ [](\A t \in Tech, a \in Article :
              LineTotal(paniers, t, a, Len(paniers)) = AddedTotal(calls, t, a, Len(calls)))
    /\ [][/\ \A p \in Proc :
               (txn[p].pc = "cart_write" /\ DraftWrite(p)) =>
                  LET x == txn[p]
                      cart == IF x.cart = NoId THEN Len(paniers) + 1 ELSE x.cart
                      old == IF x.cart = NoId THEN NoCartLines ELSE paniers[x.cart].lines
                  IN  /\ last'.ok
                      /\ paniers'[cart].status = "DRAFT"
                      /\ paniers'[cart].technician = x.tech
                      /\ paniers'[cart].lines[x.art] = old[x.art] + x.qty
                      /\ \A b \in Article \ {x.art} : paniers'[cart].lines[b] = old[b]
                      /\ \A c \in DOMAIN paniers \ {cart} : paniers'[c] = paniers[c]
                      /\ events'[Len(events')].action =
                            IF old[x.art] = 0 THEN "add_to_cart" ELSE "update_cart_line"
          /\ \A p \in Proc, t \in Tech, a \in Article, q \in 1..MaxLineQty :
               DraftInactive(p, t, a, q) =>
                  /\ ~last'.ok
                  /\ UNCHANGED <<stock, movements, events, threshold, alerts,
                                 reservations, paniers, demandes, pins>>]_vars

(* one call added 2 of a1 and committed while a second call for 1 of a1, which
   had found no DRAFT cart either, was still waiting to insert its own *)
C22_Witness ==
    \E p \in Proc :
        /\ txn[p].pc = "cart_insert" /\ txn[p].art = "a1" /\ txn[p].qty = 1
        /\ Len(calls) = 1
        /\ calls[1].proc # p /\ calls[1].op = "add_to_cart" /\ calls[1].ok
        /\ calls[1].art = "a1" /\ calls[1].qty = 2
        /\ Len(paniers) = 1 /\ paniers[1].lines["a1"] = 2

----------------------------------------------------------------------------
(* Properties of reservations, checked under SpecReserve *)

(* C23: cancel on an APPROVED reservation decreases the row's reserved_qty by
   exactly qty_reserved, leaves quantity alone and sets the reservation to
   CANCELLED; on a PENDING reservation it sets CANCELLED and touches no stock
   row; on a CANCELLED reservation it changes nothing; a cancel that directly
   follows the approval gives back the reserved_qty the approval took. *)
C23_CancelEffect ==
    [][\A id \in DOMAIN reservations :
          ReserveCancel(id) =>
             LET r == reservations[id]
                 row == <<r.technician, r.article>>
             IN  /\ r.status = "APPROVED" =>
                       /\ stock'[row].reserved_qty = stock[row].reserved_qty - r.qty_reserved
                       /\ stock'[row].quantity = stock[row].quantity
                       /\ \A o \in Rows \ {row} : stock'[o] = stock[o]
                       /\ reservations'[id].status = "CANCELLED"
                 /\ r.status = "PENDING" =>
                       /\ stock' = stock
                       /\ reservations'[id].status = "CANCELLED"
                 /\ r.status = "CANCELLED" =>
                       UNCHANGED <<stock, movements, events, threshold, alerts,
                                   reservations, paniers, demandes, pins>>
                 /\ (last.op = "approve_reservation" /\ last.ok /\ last.aux = id) =>
                       /\ reservations'[id].status = "CANCELLED"
                       /\ stock'[row].reserved_qty = stock[row].reserved_qty - last.qty
                       /\ Avail(stock', row) = Avail(stock, row) + last.qty
                 /\ \A o \in DOMAIN reservations \ {id} : reservations'[o] = reservations[o]
                 /\ movements' = movements]_vars

(* C24: approve succeeds exactly on a PENDING reservation whose qty_reserved
   is within the row's available quantity, and then raises reserved_qty by
   exactly qty_reserved, leaves quantity alone and sets APPROVED; with
   qty_reserved above available it fails with the failure of reserve, the
   reservation stays PENDING and the row keeps its quantities; on an APPROVED
   or CANCELLED reservation it fails and changes nothing. *)
C24_ApproveEffect ==
    [][\A id \in DOMAIN reservations :
          ReserveApprove(id) =>
             LET r == reservations[id]
                 row == <<r.technician, r.article>>
                 fits == r.qty_reserved <= Avail(stock, row)
             IN  /\ last'.ok <=> (r.status = "PENDING" /\ fits)
                 /\ last'.ok =>
                       /\ stock'[row].reserved_qty = stock[row].reserved_qty + r.qty_reserved
                       /\ stock'[row].quantity = stock[row].quantity
                       /\ reservations'[id].status = "APPROVED"
                 /\ (r.status = "PENDING" /\ ~fits) =>
                       /\ last'.err = "Not enough available quantity to reserve"
                       /\ reservations'[id].status = "PENDING"
                       /\ stock'[row].reserved_qty = stock[row].reserved_qty
                       /\ stock'[row].quantity = stock[row].quantity
                 /\ r.status # "PENDING" =>
                       UNCHANGED <<stock, movements, events, threshold, alerts,
                                   reservations, paniers, demandes, pins>>
                 /\ \A o \in Rows \ {row} : stock'[o] = stock[o]
                 /\ \A o \in DOMAIN reservations \ {id} : reservations'[o] = reservations[o]
                 /\ movements' = movements]_vars

(* a reservation of 2 was refused on a row with 1 available and is still
   PENDING, after another reservation of 1 was approved on the same row *)
C24_Witness ==
    /\ last.op = "approve_reservation" /\ ~last.ok
    /\ last.err = "Not enough available quantity to reserve"
    /\ reservations[last.aux].status = "PENDING"
    /\ reservations[last.aux].qty_reserved = 2
    /\ \E o \in DOMAIN reservations : reservations[o].status = "APPROVED"
    /\ stock[<<"t1", "a1">>].quantity = 2
    /\ stock[<<"t1", "a1">>].reserved_qty = 1

----------------------------------------------------------------------------
(* Properties of the stored history, checked under SpecHistory *)

Kept(old, new) ==
    /\ Len(new) >= Len(old)
    /\ \A i \in DOMAIN old : new[i] = old[i]

(* C25: no operation updates or deletes a stored StockMovement or audit
   event: after every operation, the maintenance command included, all
   movements and events recorded before it are still there with the same
   fields and the same stored hashes; and save() on an
   existing audit event whose fields were changed leaves its stored
   record_hash and prev_hash as they were, and every other row alone. *)
C25_AppendOnly ==
    [][/\ calls' = calls => (Kept(movements, movements') /\ Kept(events, events'))
       /\ \A k \in DOMAIN events, field \in ResaveFields :
             Resave(k, field) =>
                /\ Len(events') = Len(events)
                /\ events'[k].record_hash = events[k].record_hash
                /\ events'[k].prev_hash = events[k].prev_hash
                /\ \A i \in DOMAIN events \ {k} : events'[i] = events[i]
                /\ movements' = movements]_vars

----------------------------------------------------------------------------
(* Properties of rejected workflow calls, checked under SpecOrder *)

(* C26: a workflow call on an order whose status does not allow it
   (approve_full, approve_partial or refuse on an order that is not SUBMITTED;
   prepare on an order that is not APPROVED or PARTIAL with a positive total
   approved; handover on an order that is not PREPARED; close on an order
   that is not HANDED_OVER) fails and leaves the order, its lines, every
   stock row, the movements and the audit log as they were. *)
C26_RejectedUnchanged ==
    [][\A p \in {x \in Proc : loaded[x] # NoDemande} :
          LET d == loaded[p].id
              status == demandes[d].status
              refused == /\ ~last'.ok
                         /\ UNCHANGED <<stock, movements, events, threshold, alerts,
                                        reservations, paniers, demandes, pins>>
          IN  /\ (status # "SUBMITTED" /\ ApproveFull(p)) => refused
              /\ \A la \in LineApprovals :
                    (status # "SUBMITTED" /\ ApprovePartial(p, la)) => refused
              /\ (status # "SUBMITTED" /\ Refuse(p)) => refused
              /\ (/\ ~(/\ status \in {"APPROVED", "PARTIAL"}
                        /\ ApprovedTotal(demandes[d].lines, Article) > 0)
                   /\ Prepare(p)) => refused
              /\ \A h \in HandoverInputs :
                    (status # "PREPARED" /\ Handover(p, h.method, h.pin, h.signature_data))
                       => refused
              /\ (status # "HANDED_OVER" /\ Close(p)) => refused]_vars

----------------------------------------------------------------------------
(* Properties of threshold alerts, checked under SpecAlert *)

(* C27: for every (technician, article) any two ThresholdAlerts are at least
   24 hours apart, however stock requests and periodic threshold checks
   interleave, and an alert is created only in a state where the row's
   available quantity is at or below the threshold. *)
C27_OneAlertPerWindow ==
    /\ [](\A i \in DOMAIN alerts, j \in DOMAIN alerts :
              (/\ i < j
               /\ alerts[i].technician = alerts[j].technician
               /\ alerts[i].article = alerts[j].article)
                 => alerts[j].alert_sent_at - alerts[i].alert_sent_at >= ALERT_WINDOW_HOURS)
    /\ [][Len(alerts') > Len(alerts) =>
            LET a == alerts'[Len(alerts')]
                r == <<a.technician, a.article>>
            IN  /\ Len(alerts') = Len(alerts) + 1
                /\ threshold[r].exists
                /\ Avail(stock', r) <= threshold[r].min_qty]_vars

----------------------------------------------------------------------------
(* Properties of the stock ledger, checked under SpecHistory *)

MovementRow(m) == <<m.technician, m.article>>

(* C28: every row is created with quantity 0, so in every state the quantity
   of a (technician, article) row is the sum of delta over all the
   StockMovements of that pair, and every movement's balance_after is the
   quantity right after it (the sum of the deltas up to and including it);
   approving or cancelling a reservation changes no quantity and creates no
   movement. *)
C28_LedgerBalance ==
    /\ [](/\ \A r \in Rows :
                stock[r].quantity = SumDelta(movements, r, Len(movements))
           /\ \A i \in DOMAIN movements :
                movements[i].balance_after =
                    SumDelta(movements, MovementRow(movements[i]), i))
    /\ [][(\E id \in DOMAIN reservations : ReserveApprove(id) \/ ReserveCancel(id))
            => /\ movements' = movements
               /\ \A r \in Rows : stock'[r].quantity = stock[r].quantity]_vars

----------------------------------------------------------------------------
(* Properties of reserved quantities, checked under SpecReserve *)

RECURSIVE ApprovedReserved(_, _, _)
ApprovedReserved(rs, r, n) ==
    IF n = 0 THEN 0
    ELSE ApprovedReserved(rs, r, n - 1) +
         (IF rs[n].status = "APPROVED" /\ <<rs[n].technician, rs[n].article>> = r
          THEN rs[n].qty_reserved ELSE 0)

(* C29: in every state the reserved_qty of a (technician, article) row is at
   least the sum of qty_reserved over the pair's APPROVED reservations, and a
   successful issue or transfer of a quantity within the available amount
   leaves the reserved_qty of the row it takes from unchanged. *)
C29_ReservationsCovered ==
    /\ [](\A r \in Rows :
              stock[r].reserved_qty >= ApprovedReserved(reservations, r, Len(reservations)))
    /\ [][\A f \in Tech, t \in Tech, a \in Article, q \in 1..MaxQty :
             (/\ q <= Avail(stock, <<f, a>>)
              /\ ReserveIssue(f, a, q) \/ ReserveTransfer(f, t, a, q)
              /\ last'.ok)
                => stock'[<<f, a>>].reserved_qty = stock[<<f, a>>].reserved_qty]_vars

----------------------------------------------------------------------------
(* Properties of concurrent handover, checked under SpecHandover *)

(* C30: the prepared quantities of an order are received at most once, also
   when several handover requests work on the same PREPARED order: every
   order line has at most one RECEIPT movement linked to the order, and a
   successful handover of an order that already has such a movement adds
   nothing to the technician's quantity. *)
C30_ReceivedOnce ==
    /\ [](\A d \in DOMAIN demandes, a \in Article :
              Cardinality(ReceiptsFor(movements, d, demandes[d].technician, a)) <= 1)
    /\ [][\A d \in DOMAIN demandes, a \in Article :
             ReceiptsFor(movements, d, demandes[d].technician, a) # {}
                => (\/ last'.op # "handover"
                    \/ \E p \in Proc : loaded[p] # NoDemande /\ loaded[p].id # d
                                         /\ loaded'[p] = NoDemande
                    \/ stock'[<<demandes[d].technician, a>>].quantity
                          = stock[<<demandes[d].technician, a>>].quantity)]_vars

----------------------------------------------------------------------------
(* Properties of concurrent decisions, checked under SpecOrder *)

DecisionActions == {"approve_demand_full", "approve_demand_partial", "refuse_demand"}

Decisions(d) ==
    {i \in DOMAIN events :
        /\ events[i].entity_type = "Demande" /\ events[i].entity_id = d
        /\ events[i].action \in DecisionActions}

(* C31: for every order at most one of the calls approve_full,
   approve_partial and refuse ever succeeds (each success records one audit
   event of the order), also when several requests fetched the order while it
   was SUBMITTED; a REFUSED order has no approved quantity and an APPROVED
   order has every line approved in full. *)
C31_OneDecision ==
    \A d \in DOMAIN demandes :
        /\ Cardinality(Decisions(d)) <= 1
        /\ demandes[d].status = "REFUSED" =>
              \A a \in Article : demandes[d].lines[a].exists =>
                  demandes[d].lines[a].qty_approved = 0
        /\ demandes[d].status = "APPROVED" =>
              \A a \in Article : demandes[d].lines[a].exists =>
                  demandes[d].lines[a].qty_approved = demandes[d].lines[a].qty_requested

----------------------------------------------------------------------------
(* Properties of the reservation made by prepare, checked under SpecOrder *)

Answered(op, d) ==
    /\ last'.op = op /\ last'.ok /\ last'.aux = d
    /\ \E p \in Proc : loaded[p] # NoDemande /\ loaded[p].id = d /\ loaded'[p] = NoDemande

(* C32: a successful prepare adds the qty_prepared it records on each line
   with an approved quantity to the reserved_qty of the technician's row,
   skips the other lines, and leaves the quantity alone; a
   successful handover adds qty_prepared to the quantity and leaves every
   reserved_qty as it was; no workflow request lowers a reserved_qty.  So a
   line prepared and handed over with qty_prepared = p leaves the row with
   quantity and reserved_qty both p higher than before prepare, and the
   quantity is still reserved when the order is CLOSED. *)
C32_ReservedKept ==
    /\ [](\A d \in DOMAIN demandes, a \in Article :
              demandes[d].status \in {"PREPARED", "HANDED_OVER", "CLOSED"}
                 => stock[<<demandes[d].technician, a>>].reserved_qty
                       >= demandes[d].lines[a].qty_prepared)
    /\ [][/\ \A r \in Rows : stock'[r].reserved_qty >= stock[r].reserved_qty
          /\ \A d \in DOMAIN demandes :
              LET t == demandes[d].technician IN
              /\ Answered("prepare", d) =>
                    \A a \in Article :
                       /\ stock'[<<t, a>>].reserved_qty =
                             stock[<<t, a>>].reserved_qty +
                                (IF demandes[d].lines[a].qty_approved > 0
                                 THEN demandes'[d].lines[a].qty_prepared ELSE 0)
                       /\ stock'[<<t, a>>].quantity = stock[<<t, a>>].quantity
              /\ Answered("handover", d) =>
                    /\ \A r \in Rows : stock'[r].reserved_qty = stock[r].reserved_qty
                    /\ \A a \in Article :
                          stock'[<<t, a>>].quantity =
                             stock[<<t, a>>].quantity + demandes[d].lines[a].qty_prepared]_vars

(* order 1 was prepared with qty_prepared = 1 when the technician held 1 and
   nothing was reserved, and has been handed over and closed: the row now
   holds 2, of which 1 is still reserved *)
C32_Witness ==
    /\ last.op = "handover" /\ last.ok /\ last.aux = 1
    /\ demandes[1].status = "CLOSED"
    /\ demandes[1].lines["a1"].qty_prepared = 1
    /\ stock[<<"t1", "a1">>].quantity = 2
    /\ stock[<<"t1", "a1">>].reserved_qty = 1

----------------------------------------------------------------------------
(* Progress of orders, checked under SpecOrder *)

TerminalStatus == {"REFUSED", "CLOSED"}

(* the workflow call an administrator can make next on order d, run on a
   freshly fetched instance *)
NextCall(db, d) ==
    LET demande == Snapshot(db, d) IN
    CASE demande.status = "SUBMITTED" -> approve_demand_full(db, demande, IsAdmin)
      [] demande.status \in {"APPROVED", "PARTIAL"} -> prepare_demand(db, demande, IsAdmin)
      [] demande.status = "PREPARED" ->
             handover_demand(db, demande, "SIGNATURE", "", "valid", now)
      [] demande.status = "HANDED_OVER" -> close_demand(db, demande)
      [] OTHER -> Fail(db, "terminal")

RECURSIVE Driven(_, _, _)
Driven(db, d, n) ==
    IF db.demandes[d].status \in TerminalStatus THEN TRUE
    ELSE IF n = 0 THEN FALSE
    ELSE LET res == NextCall(db, d) IN res.ok /\ Driven(res.db, d, n - 1)

(* C33: no order is stuck.  In every state, every order that is not REFUSED
   or CLOSED has a workflow call that succeeds on it, and succeeding calls
   lead it to CLOSED within four calls; every order in APPROVED or PARTIAL
   has a total approved quantity above 0. *)
C33_NoOrderStuck ==
    \A d \in DOMAIN demandes :
        /\ demandes[d].status \notin TerminalStatus => NextCall(DB, d).ok
        /\ Driven(DB, d, 4)
        /\ demandes[d].status \in {"APPROVED", "PARTIAL"} =>
              ApprovedTotal(demandes[d].lines, Article) > 0

(* a partial approval has left order 1 in PARTIAL with one of its two lines
   approved, and the order can still be prepared *)
C33_Witness ==
    /\ last.op = "approve_partial" /\ last.ok /\ last.aux = 1
    /\ demandes[1].status = "PARTIAL"
    /\ demandes[1].lines["a1"].qty_approved = 0
    /\ demandes[1].lines["a2"].qty_approved = 1
    /\ prepare_demand(DB, Snapshot(DB, 1), IsAdmin).ok

----------------------------------------------------------------------------
(* Property of the audit trail of one order, checked under SpecOrder *)

DemandeEvents(d) ==
    order_by_timestamp(events, {i \in DOMAIN events :
                                   events[i].entity_type = "Demande" /\ events[i].entity_id = d})

(* C34: the audit events of one order (entity type Demande, the order's id),
   taken in timestamp order, are chained to each other: the prev_hash of each
   is the record_hash of the one before it, through submit, approve, prepare
   and handover. *)
C34_OrderChain ==
    \A d \in DOMAIN demandes :
        LET query == DemandeEvents(d) IN
        \A i \in 2..Len(query) :
            events[query[i]].prev_hash = events[query[i - 1]].record_hash

----------------------------------------------------------------------------
(* Property of a refused partial approval, checked under SpecPrepare *)

InvalidApproval == {"Demand line not found", "Approved quantity cannot be negative",
                    "Approved quantity cannot exceed requested quantity"}

(* C35: approve_partial is all-or-nothing.  When an entry of the line
   approvals is negative, exceeds the qty_requested of its line or names a
   line that is not in the order, the call fails with an InvalidApproval
   error and the order (status and every qty_approved), stock, movements and
   audit events are as before the call, also when valid entries precede the
   invalid one. *)
C35_PartialAllOrNothing ==
    [][\A p \in PrepareProc, la \in LineApprovals :
          (/\ loaded[p] # NoDemande
           /\ demandes[loaded[p].id].status = "SUBMITTED"
           /\ ~ValidApprovals(loaded[p].id, la)
           /\ ApprovePartial(p, la)) =>
              /\ ~last'.ok
              /\ last'.err \in InvalidApproval
              /\ UNCHANGED <<demandes, stock, movements, events, paniers>>]_vars

(* a partial approval of the two-line order 1 was refused for a quantity above
   the requested one, and the order is still SUBMITTED with nothing approved *)
C35_Witness ==
    /\ last.op = "approve_partial" /\ ~last.ok
    /\ last.err = "Approved quantity cannot exceed requested quantity"
    /\ demandes[1].status = "SUBMITTED"
    /\ demandes[1].lines["a1"].exists /\ demandes[1].lines["a2"].exists
    /\ \A a \in Article : demandes[1].lines[a].qty_approved = 0

----------------------------------------------------------------------------
(* Properties of adjust and receive, checked under Spec *)

(* C36: adjust(technician, article, new_quantity) is rejected before any
   change when new_quantity is negative, and fails with "No change in
   quantity" and changes nothing when new_quantity is the current quantity
   (0 for a row that does not exist); otherwise it succeeds, sets the quantity
   to new_quantity, leaves reserved_qty and the other rows alone and appends
   exactly one ADJUST movement with delta = new_quantity - old quantity and
   balance_after = new_quantity. *)
C36_AdjustEffect ==
    [][\A t \in Tech, a \in LedgerArticle, n \in (-1)..MaxQty :
          Adjust(t, a, n) =>
             LET r == <<t, a>> IN
             IF n < 0 \/ n = stock[r].quantity
             THEN /\ ~last'.ok
                  /\ last'.err = IF n < 0 THEN "Stock quantity cannot be negative"
                                 ELSE "No change in quantity"
                  /\ UNCHANGED <<stock, movements, events, threshold, alerts, reservations>>
             ELSE /\ last'.ok
                  /\ stock'[r].exists
                  /\ stock'[r].quantity = n
                  /\ stock'[r].reserved_qty = stock[r].reserved_qty
                  /\ \A o \in Rows \ {r} : stock'[o] = stock[o]
                  /\ movements' = Append(movements,
                         [technician |-> t, article |-> a, delta |-> n - stock[r].quantity,
                          reason |-> "ADJUST", linked_demande |-> NoId,
                          balance_after |-> n])]_vars

(* an adjustment has lowered a row that holds a reservation: the quantity is
   the new one, the reservation is untouched *)
C36_Witness ==
    /\ last.op = "adjust" /\ last.ok /\ last.qty = 1
    /\ stock[LastRow].quantity = 1
    /\ stock[LastRow].reserved_qty = 1
    /\ LastMovement.reason = "ADJUST" /\ LastMovement.delta = -1
    /\ LastMovement.balance_after = 1

(* the orders a receipt can be linked to: none, or order 1 *)
LinkedOrders == {NoId, 1}

(* C37: receive(technician, article, qty) with qty > 0 succeeds in every
   state: it creates the row with quantity 0 when the pair has none, adds
   exactly qty to the quantity, leaves reserved_qty and the other rows alone,
   and appends exactly one RECEIPT movement with delta = qty, balance_after =
   the new quantity and the linked order when one is given. *)
C37_ReceiveEffect ==
    /\ [](\A t \in Tech, a \in LedgerArticle, q \in 1..MaxQty, d \in LinkedOrders :
             LET res == receive_stock(DB, t, a, q, d)
                 r == <<t, a>>
             IN  /\ res.ok
                 /\ res.db.stock[r].exists
                 /\ res.db.stock[r].quantity = stock[r].quantity + q
                 /\ res.db.stock[r].reserved_qty = stock[r].reserved_qty
                 /\ \A o \in Rows \ {r} : res.db.stock[o] = stock[o]
                 /\ res.db.movements = Append(movements,
                        [technician |-> t, article |-> a, delta |-> q,
                         reason |-> "RECEIPT", linked_demande |-> d,
                         balance_after |-> stock[r].quantity + q]))
    /\ [][\A t \in Tech, a \in LedgerArticle, q \in 1..MaxQty :
             Receive(t, a, q) =>
                LET r == <<t, a>> IN
                /\ last'.ok
                /\ stock'[r].exists
                /\ stock'[r].quantity = stock[r].quantity + q
                /\ stock'[r].reserved_qty = stock[r].reserved_qty
                /\ \A o \in Rows \ {r} : stock'[o] = stock[o]
                /\ movements' = Append(movements,
                       [technician |-> t, article |-> a, delta |-> q,
                        reason |-> "RECEIPT", linked_demande |-> NoId,
                        balance_after |-> stock'[r].quantity])]_vars

(* a receipt has created the row of a technician who held nothing *)
C37_Witness ==
    /\ last.op = "receive" /\ last.ok /\ last.tech = "t2" /\ last.qty = 2
    /\ stock[LastRow].exists
    /\ stock[LastRow].quantity = 2 /\ stock[LastRow].reserved_qty = 0
    /\ LastMovement.technician = "t2" /\ LastMovement.reason = "RECEIPT"
    /\ LastMovement.delta = 2 /\ LastMovement.balance_after = 2
    /\ Cardinality({i \in DOMAIN movements : movements[i].technician = "t2"}) = 1

----------------------------------------------------------------------------
(* Properties of cart lines after submission, checked under SpecCart *)

OrderOfCart(cart) == {d \in DOMAIN demandes : demandes[d].panier = cart}

(* C38: set_line_quantity on a line of the technician's DRAFT cart deletes the
   line when the quantity is 0 and sets the line's quantity otherwise; on a
   line of a cart that is not DRAFT it fails with "Cannot modify a submitted
   cart" and changes nothing.  A SUBMITTED cart is never changed by any
   request, and its lines are the (article, qty_requested) pairs of its one
   order. *)
C38_SubmittedCartFrozen ==
    /\ [](\A cart \in DOMAIN paniers :
              paniers[cart].status = "SUBMITTED" =>
                 /\ Cardinality(OrderOfCart(cart)) = 1
                 /\ \A d \in OrderOfCart(cart), a \in Article :
                       /\ demandes[d].lines[a].exists <=> paniers[cart].lines[a] > 0
                       /\ demandes[d].lines[a].exists =>
                             demandes[d].lines[a].qty_requested = paniers[cart].lines[a])
    /\ [][/\ \A cart \in DOMAIN paniers :
                paniers[cart].status = "SUBMITTED" => paniers'[cart] = paniers[cart]
          /\ \A t \in CartTech, cart \in DOMAIN paniers, a \in Article, n \in 0..MaxCartQty :
                (/\ paniers[cart].technician = t
                 /\ paniers[cart].lines[a] > 0
                 /\ UpdateCartLine(t, cart, a, n)) =>
                    IF paniers[cart].status = "DRAFT"
                    THEN /\ last'.ok
                         /\ paniers'[cart].lines[a] = n
                         /\ paniers'[cart].status = "DRAFT"
                         /\ \A o \in Article \ {a} :
                               paniers'[cart].lines[o] = paniers[cart].lines[o]
                    ELSE /\ ~last'.ok
                         /\ last'.err = "Cannot modify a submitted cart"
                         /\ UNCHANGED <<paniers, demandes, events>>]_vars

(* a request to change a line of the submitted cart 1 was refused; the cart
   and its order still agree *)
C38_Witness ==
    /\ last.op = "update_cart_line" /\ ~last.ok
    /\ last.err = "Cannot modify a submitted cart"
    /\ last.aux \in DOMAIN paniers
    /\ paniers[last.aux].status = "SUBMITTED"
    /\ paniers[last.aux].lines[last.art] > 0
    /\ \E d \in OrderOfCart(last.aux) :
          demandes[d].lines[last.art].qty_requested = paniers[last.aux].lines[last.art]

----------------------------------------------------------------------------
(* Property of refused submissions, checked under SpecSubmit *)

(* C39: submit fails when the technician's DRAFT cart has no lines, when one
   of its lines is of an article that is inactive at submit time (both
   "Cart cannot be submitted"), and when the technician has no DRAFT cart
   because the cart was already submitted ("No active cart found"); in each
   case every cart keeps its status and lines, no order and no order line is
   created and nothing is logged.  Otherwise submit succeeds. *)
C39_SubmitRefusals ==
    [][\A t \in CartTech, inactive \in SUBSET Article :
          SubmitCart(t, inactive) =>
             IF DraftCarts(DB, t) = {}
             THEN /\ ~last'.ok /\ last'.err = "No active cart found"
                  /\ UNCHANGED <<paniers, demandes, events>>
             ELSE LET c == paniers[CHOOSE i \in DraftCarts(DB, t) : TRUE] IN
                  IF \/ \A a \in Article : c.lines[a] = 0
                     \/ \E a \in inactive : c.lines[a] > 0
                  THEN /\ ~last'.ok /\ last'.err = "Cart cannot be submitted"
                       /\ UNCHANGED <<paniers, demandes, events>>
                  ELSE /\ last'.ok
                       /\ Len(demandes') = Len(demandes) + 1]_vars

(* the submission of a cart that holds a line was refused, which happens only
   for an inactive article: the cart is still DRAFT with its line and there is
   no order *)
C39_Witness ==
    /\ last.op = "submit_cart" /\ ~last.ok /\ last.err = "Cart cannot be submitted"
    /\ \E cart \in DraftCarts(DB, "t1") : paniers[cart].lines["a1"] > 0
    /\ demandes = <<>>

----------------------------------------------------------------------------
(* Property of full approval, checked under SpecOrder *)

(* C40: approve_full on an order that is SUBMITTED succeeds, sets the
   qty_approved of every line of the order to its qty_requested, moves the
   order to APPROVED and records the approval as one approve_demand_full
   event of the order, while every other order, every stock row, every
   reservation and the list of stock movements stay as they were. *)
C40_ApproveFullEffect ==
    [][\A p \in Proc :
          (/\ loaded[p] # NoDemande
           /\ demandes[loaded[p].id].status = "SUBMITTED"
           /\ ApproveFull(p)) =>
              LET d == loaded[p].id IN
              /\ last'.ok
              /\ demandes'[d].status = "APPROVED"
              /\ \A a \in Article :
                    IF demandes[d].lines[a].exists
                    THEN demandes'[d].lines[a] =
                            [demandes[d].lines[a] EXCEPT
                                !.qty_approved = demandes[d].lines[a].qty_requested]
                    ELSE demandes'[d].lines[a] = demandes[d].lines[a]
              /\ \A o \in DOMAIN demandes : o # d => demandes'[o] = demandes[o]
              /\ DOMAIN demandes' = DOMAIN demandes
              /\ Len(events') = Len(events) + 1
              /\ \E i \in 1..Len(events') :
                    /\ events'[i].action = "approve_demand_full"
                    /\ events'[i].entity_type = "Demande"
                    /\ events'[i].entity_id = d
                    /\ \A j \in 1..Len(events) : events[j] # events'[i]
              /\ UNCHANGED <<stock, movements, reservations>>]_vars

(* a full approval succeeded: the order is APPROVED and a line of it is
   approved for the whole positive quantity requested *)
C40_Witness ==
    /\ last.op = "approve_full" /\ last.ok
    /\ demandes[last.aux].status = "APPROVED"
    /\ \E a \in Article :
          /\ demandes[last.aux].lines[a].exists
          /\ demandes[last.aux].lines[a].qty_requested > 0
          /\ demandes[last.aux].lines[a].qty_approved = demandes[last.aux].lines[a].qty_requested

====
